---------------------------- MODULE Spec2Model ----------------------------
(***************************************************************************)
(* Model of the two import codemods of typescript-migrate-imports.         *)
(*                                                                         *)
(*  - the extension pass (src/migrate-imports.ts): processDirectory walks  *)
(*    a tree and processFile appends '.ts' to relative import specifiers   *)
(*    whose target exists;                                                 *)
(*  - the type-only pass (src/unnamed/part_003 and                         *)
(*    src/type-only-import-migrator.ts): import statements named by        *)
(*    TS1484 diagnostics are split into a value and a type-only import.    *)
(*                                                                         *)
(* File text is a sequence of tokens.  A token stands for a run of         *)
(* characters that the code never looks inside: a keyword, an identifier,  *)
(* one punctuation character, one blank, one line break.                   *)
(***************************************************************************)
EXTENDS Integers, Sequences, FiniteSets, TLC

VARIABLES
  \* ---- extension pass ----
  exists,        \* the paths fs.access() succeeds on
  chunks,        \* per file: the statements the initial content was built from
  content,       \* per file: the text on disk
  before,        \* per file: the text on disk when the current pass began
  pass,          \* 1: first run of processDirectory, 2: second run
  queue,         \* files processDirectory has still to hand to processFile
  pc,            \* "walk" | "scan" | "done"
  cur,           \* the file processFile is working on
  fileContent,   \* processFile: fileContent
  newContent,    \* processFile: newContent
  lastIndex,     \* processFile: lastIndex (chars of fileContent already copied)
  reIndex,       \* importRegex.lastIndex (0-based offset where exec resumes)
  modified,      \* processFile: fileContentModified
  examined,      \* matches examined so far in the current file
  writeLog,      \* every fs.writeFile call: file, pass, matches examined before it
  \* ---- statement rewriter ----
  stImports,     \* ImportStatement.imports: the names between the braces
  stTypes,       \* the identifiers the diagnostics name as types
  stTypeOnly,    \* ImportStatement.hasTypeOnly
  stIndent,      \* the indent handed to generateNewImportStatement
  stFn,          \* "none" | "update" | "generate": the function that was applied
  stOut,         \* the string it returned
  \* ---- fixImportsInFile ----
  fxLines,       \* the lines of the file on disk
  fxErrors,      \* this.errors for the file: <<line, typeName>> pairs
  fxPc,          \* "start" | "loop" | "done"
  fxStatements,  \* importStatements still to be visited by the for loop
  fxUpdated,     \* updatedLines
  fxOffset,      \* lineOffset
  fxWritten,     \* the content handed to writeFile, as lines; <<"none">> before
  \* ---- parseTscOutput ----
  tscLines,      \* the lines the compiler output was built from
  tscErrors,     \* the ImportError sequence parseTscOutput returned
  tscDone,       \* parseTscOutput has returned
  \* ---- groupErrorsByFileLine ----
  grErrors,      \* the ImportError sequence handed to groupErrorsByFileLine
  grGrouped,     \* the Map it returned: a sequence of <<key, value>> entries
  grDone,        \* groupErrorsByFileLine has returned
  \* ---- parseImportStatement ----
  plLine,        \* the line handed to parseImportStatement
  plResult,      \* what it returned
  plDone,        \* parseImportStatement has returned
  \* ---- migrateImports and migrateFromErrorOutput ----
  runFn,         \* "migrateImports" | "migrateFromErrorOutput": the method that runs
  runOut,        \* the lines the diagnostic input was built from
  runDisk,       \* per file: "ok" | "missing" | "unreadable" | "readonly"
  runErrors,     \* the errors the parser returned
  runQueue,      \* the files the loop over the files has still to visit
  runPc,         \* "start" | "files" | "done" | "thrown"
  runVisited,    \* the files handed to fixImportsInFile or processFile, in order
  runReads,      \* the files a read was asked for, in order
  runWrites,     \* the <<file, lines>> of every write that succeeded, in order
  runLog,        \* the files a warning or an error was logged for, in order
  \* ---- command line of the extension pass ----
  wkArg,         \* process.argv[2]: a path, << >> when it is missing
  wkDisk,        \* per directory and file of the tree: "ok" | "unreadable" | "readonly"
  wkNeeds,       \* the files in which processFile finds a specifier to rewrite
  wkStack,       \* the calls of processDirectory in progress: directory, items left
  wkPc,          \* "main" | "walk" | "exit0" | "exit1"
  wkReaddirs,    \* the directories processDirectory was called for, in order
  wkProcessed,   \* the files handed to processFile, in order
  wkWritten,     \* the files written, in order
  wkLog,         \* the directories and files an error was logged for, in order
  \* ---- parseErrorOutput ----
  eoLines,       \* the lines the error output was built from
  eoErrors,      \* the ImportError sequence parseErrorOutput returned
  eoDone         \* parseErrorOutput has returned

extVars == <<exists, chunks, content, before, pass, queue, pc, cur, fileContent,
             newContent, lastIndex, reIndex, modified, examined, writeLog>>

stVars == <<stImports, stTypes, stTypeOnly, stIndent, stFn, stOut>>

fxVars == <<fxLines, fxErrors, fxPc, fxStatements, fxUpdated, fxOffset, fxWritten>>

tscVars == <<tscLines, tscErrors, tscDone>>

grVars == <<grErrors, grGrouped, grDone>>

plVars == <<plLine, plResult, plDone>>

runVars == <<runFn, runOut, runDisk, runErrors, runQueue, runPc, runVisited, runReads,
             runWrites, runLog>>

eoVars == <<eoLines, eoErrors, eoDone>>

wkVars == <<wkArg, wkDisk, wkNeeds, wkStack, wkPc, wkReaddirs, wkProcessed, wkWritten,
            wkLog>>

vars == <<extVars, stVars, fxVars, tscVars, grVars, plVars, runVars, wkVars, eoVars>>

nonExtVars == <<stVars, fxVars, tscVars, grVars, plVars, runVars, wkVars, eoVars>>
nonStVars == <<extVars, fxVars, tscVars, grVars, plVars, runVars, wkVars, eoVars>>
nonFxVars == <<extVars, stVars, tscVars, grVars, plVars, runVars, wkVars, eoVars>>
nonTscVars == <<extVars, stVars, fxVars, grVars, plVars, runVars, wkVars, eoVars>>
nonGrVars == <<extVars, stVars, fxVars, tscVars, plVars, runVars, wkVars, eoVars>>
nonPlVars == <<extVars, stVars, fxVars, tscVars, grVars, runVars, wkVars, eoVars>>
nonRunVars == <<extVars, stVars, fxVars, tscVars, grVars, plVars, wkVars, eoVars>>
nonWkVars == <<extVars, stVars, fxVars, tscVars, grVars, plVars, runVars, eoVars>>
nonEoVars == <<extVars, stVars, fxVars, tscVars, grVars, plVars, runVars, wkVars>>

-----------------------------------------------------------------------------
(* Bounds *)

\* statements per enumerated source file
MaxChunks == 3

\* names between the braces of an enumerated import statement
MaxNames == 3

\* lines of an enumerated file of the type-only pass
MaxLines == 3

\* TS1484 diagnostics that name the enumerated file
MaxErrors == 2

\* lines of an enumerated compiler output
MaxOutLines == 3

\* errors handed to groupErrorsByFileLine
MaxGroupErrors == 3

\* diagnostics, each with its source snippet, in the input of a whole run
MaxBlocks == 2

\* lines of an error output handed to parseErrorOutput
MaxErrLines == 4

-----------------------------------------------------------------------------
(* Generic helpers on token sequences *)

Min(S) == CHOOSE x \in S : \A y \in S : x <= y

RECURSIVE Flatten(_)
Flatten(ss) == IF ss = <<>> THEN <<>> ELSE Head(ss) \o Flatten(Tail(ss))

SeqsUpTo(S, n) == UNION {[1..k -> S] : k \in 0..n}

\* s.endsWith(suffix)
EndsWith(s, suffix) ==
  /\ Len(s) >= Len(suffix)
  /\ SubSeq(s, Len(s) - Len(suffix) + 1, Len(s)) = suffix

\* positions (1-based) where pat occurs in s
Occurrences(s, pat) ==
  {k \in 1..(Len(s) - Len(pat) + 1) : SubSeq(s, k, k + Len(pat) - 1) = pat}


\* s.substring(a, b) with JavaScript's 0-based offsets
Substring(s, a, b) == SubSeq(s, a + 1, b)

-----------------------------------------------------------------------------
(* The file system of the extension pass *)

TS == <<".", "ts">>
JS == <<".", "js">>

\* A path is a sequence of segments, a segment a sequence of tokens.
RootDir == << <<"r">> >>
SubDir  == << <<"r">>, <<"sub">> >>
FileCfg == RootDir \o << <<".", "config">> \o TS >>
FileA   == RootDir \o << <<"a">> \o TS >>
FileB   == RootDir \o << <<"b">> \o TS >>
FileBJs == RootDir \o << <<"b">> \o JS \o TS >>
FileC   == SubDir \o << <<"c">> \o TS >>
Files   == {FileCfg, FileA, FileB, FileBJs, FileC}

\* path.dirname(filePath)
Dirname(p) == SubSeq(p, 1, Len(p) - 1)

\* readdir(dir, {withFileTypes: true}): the entries of dir that exist, by name
ReadDir(ex, dir) ==
  LET all == IF dir = RootDir
             THEN << [name |-> <<".", "config">> \o TS, isDirectory |-> FALSE, isFile |-> TRUE],
                     [name |-> <<"a">> \o TS, isDirectory |-> FALSE, isFile |-> TRUE],
                     [name |-> <<"b">> \o JS \o TS, isDirectory |-> FALSE, isFile |-> TRUE],
                     [name |-> <<"b">> \o TS, isDirectory |-> FALSE, isFile |-> TRUE],
                     [name |-> <<"sub">>, isDirectory |-> TRUE, isFile |-> FALSE] >>
             ELSE IF dir = SubDir
             THEN << [name |-> <<"c">> \o TS, isDirectory |-> FALSE, isFile |-> TRUE] >>
             ELSE << >>
  IN SelectSeq(all, LAMBDA e : (dir \o <<e.name>>) \in ex)

\* processDirectory: the files handed to processFile, in order
RECURSIVE processDirectory(_, _)
RECURSIVE VisitItems(_, _, _)
VisitItems(ex, dir, items) ==
  IF items = << >> THEN << >>
  ELSE LET item == Head(items)
           fullPath == dir \o <<item.name>>
           here == IF item.isDirectory THEN processDirectory(ex, fullPath)
                   ELSE IF item.isFile /\ EndsWith(item.name, TS) THEN <<fullPath>>
                   ELSE << >>
       IN here \o VisitItems(ex, dir, Tail(items))
processDirectory(ex, directoryPath) ==
  VisitItems(ex, directoryPath, ReadDir(ex, directoryPath))

\* the segments of a specifier: importPath.split('/')
RECURSIVE SplitSlash(_)
SplitSlash(p) ==
  IF \A k \in 1..Len(p) : p[k] # "/" THEN <<p>>
  ELSE LET k == Min({j \in 1..Len(p) : p[j] = "/"})
       IN <<SubSeq(p, 1, k - 1)>> \o SplitSlash(SubSeq(p, k + 1, Len(p)))

\* path.resolve(dir, importPath): '.' and '' are dropped, '..' pops a segment
RECURSIVE ResolveSegs(_, _)
ResolveSegs(acc, segs) ==
  IF segs = << >> THEN acc
  ELSE LET s == Head(segs)
       IN IF s = << >> \/ s = <<".">> THEN ResolveSegs(acc, Tail(segs))
          ELSE IF s = <<".", ".">>
               THEN ResolveSegs(IF acc = << >> THEN acc ELSE SubSeq(acc, 1, Len(acc) - 1),
                                Tail(segs))
               ELSE ResolveSegs(acc \o <<s>>, Tail(segs))

PathResolve(dir, importPath) == ResolveSegs(dir, SplitSlash(importPath))

\* resolvedPath + '.ts'
PlusTs(p) ==
  IF p = << >> THEN <<TS>>
  ELSE SubSeq(p, 1, Len(p) - 1) \o <<p[Len(p)] \o TS>>

\* a rewriter that guesses: it never checks that the target exists
AccessOk_Always(ex, resolvedPath) == TRUE

\* await fs.access(resolvedPath + '.ts') does not throw
AccessOk(ex, resolvedPath) == PlusTs(resolvedPath) \in ex

-----------------------------------------------------------------------------
(* processFile of the extension pass: the pattern and the rewrite *)

IsSpace(t) == t \in {" ", "\n"}
IsQuote(t) == t \in {"'", "\""}

\* The tail  from\s+['"](?<path>\..+?)['"];?  of importRegex, tried with "from"
\* at position j (1-based).  \s+ takes the whole run of blanks; the path is the
\* dot and at least one more character other than a line break, up to the first
\* quote after it; the semicolon is taken when present.
RegexTail(text, j) ==
  LET n == Len(text)
      nonWs == {k \in (j + 1)..n : ~IsSpace(text[k])}
      w == IF nonWs = {} THEN n + 1 ELSE Min(nonWs)
      closing == {k \in (w + 3)..n : IsQuote(text[k])}
      q == IF closing = {} THEN n + 1 ELSE Min(closing)
      ok == /\ text[j] = "from"
            /\ w > j + 1
            /\ w + 3 <= n
            /\ IsQuote(text[w])
            /\ text[w + 1] = "."
            /\ q <= n
            /\ \A k \in (w + 2)..(q - 1) : text[k] # "\n"
      last == IF ok /\ q + 1 <= n /\ text[q + 1] = ";" THEN q + 1 ELSE q
  IN [ok |-> ok, pathFrom |-> w + 1, pathTo |-> q - 1, last |-> last]

\* importRegex.exec(fileContent) with importRegex.lastIndex = from0:
\*   /(import|export)(?:[\s\S]*?)from\s+['"](?<path>\..+?)['"];?/g
\* The leftmost keyword that some matching tail follows, then the nearest such
\* tail (the middle part is lazy).
importRegex(text, from0) ==
  LET n == Len(text)
      tails == {j \in (from0 + 1)..n : text[j] = "from" /\ RegexTail(text, j).ok}
      starts == {i \in (from0 + 1)..n :
                   text[i] \in {"import", "export"} /\ \E j \in tails : j > i}
  IN IF starts = {} THEN [found |-> FALSE]
     ELSE LET i == Min(starts)
              t == RegexTail(text, Min({j \in tails : j > i}))
          IN [found |-> TRUE,
              index |-> i - 1,
              text  |-> SubSeq(text, i, t.last),
              path  |-> SubSeq(text, t.pathFrom, t.pathTo)]

\* an extension test that forgets '.js'
LacksExtension_TsOnly(importPath) == ~EndsWith(importPath, TS)

\* !importPath.endsWith('.ts') && !importPath.endsWith('.js')
LacksExtension(importPath) == ~EndsWith(importPath, TS) /\ ~EndsWith(importPath, JS)

\* s.replace(pattern, replacement) with a string pattern: the first occurrence
StringReplace(s, pattern, replacement) ==
  LET occ == Occurrences(s, pattern)
  IN IF occ = {} THEN s
     ELSE LET k == Min(occ)
          IN SubSeq(s, 1, k - 1) \o replacement \o SubSeq(s, k + Len(pattern), Len(s))

\* a processFile that writes every file back
WriteNeeded_Always(fileContentModified) == TRUE

\* if (fileContentModified) { ... writeFile ... }
WriteNeeded(fileContentModified) == fileContentModified

-----------------------------------------------------------------------------
(* The source files the extension pass is run on *)

\* One statement of a source file:
\*   stmt:  <kw> x from <q><path><q>[;]       an import / export ... from
\*   lit:   export const s = '<path>';        a string literal holding a path
\*   code:  export const B = 1;               any other code
Stmt(kw, q, path, semi) == [kind |-> "stmt", kw |-> kw, q |-> q, path |-> path, semi |-> semi]
Lit(path) == [kind |-> "lit", kw |-> "export", q |-> "'", path |-> path, semi |-> TRUE]
Code == [kind |-> "code", kw |-> "export", q |-> "'", path |-> << >>, semi |-> TRUE]

\* the tokens before the path of a statement
ChunkHead(c) ==
  IF c.kind = "stmt" THEN <<c.kw, " ", "x", " ", "from", " ", c.q>>
  ELSE IF c.kind = "lit" THEN <<"export", " ", "const", " ", "s", " ", "=", " ", "'">>
  ELSE <<"export", " ", "const", " ", "B", " ", "=", " ", "1">>

ChunkText(c) ==
  ChunkHead(c) \o c.path
    \o (IF c.kind = "code" THEN << >> ELSE <<c.q>>)
    \o (IF c.semi THEN <<";">> ELSE << >>) \o <<"\n">>

RECURSIVE TextOf(_)
TextOf(cs) == IF cs = << >> THEN << >> ELSE ChunkText(Head(cs)) \o TextOf(Tail(cs))

PathB    == <<".", "/", "b">>
PathUpB  == <<".", ".", "/", "b">>
PathN    == <<".", "/", "n">>
PathCfg  == <<".", "config">>
PathPkg  == <<"pkg">>

\* the statements file a.ts is built from
PoolA ==
  { Stmt("import", "'", PathB, TRUE),
    Stmt("export", "\"", PathB, FALSE),
    Stmt("import", "'", PathN, TRUE),
    Stmt("import", "'", PathB \o TS, TRUE),
    Stmt("export", "\"", PathB \o JS, TRUE),
    Stmt("import", "'", PathCfg, TRUE),
    Stmt("import", "'", PathPkg, TRUE),
    Lit(PathB) }

\* the statements file sub/c.ts is built from
PoolC ==
  { Stmt("import", "'", PathUpB, TRUE) }

ExtInit ==
  /\ \E hasB \in BOOLEAN :
       exists = {RootDir, SubDir, FileCfg, FileA, FileBJs, FileC}
                  \cup (IF hasB THEN {FileB} ELSE {})
  /\ \E ca \in SeqsUpTo(PoolA, MaxChunks), cc \in PoolC :
       chunks = [f \in Files |-> IF f = FileA THEN ca
                                 ELSE IF f = FileC THEN <<cc>>
                                 ELSE <<Code>>]
  /\ content = [f \in Files |-> TextOf(chunks[f])]
  /\ before = content
  /\ pass = 1
  /\ queue = processDirectory(exists, RootDir)
  /\ pc = "walk"
  /\ cur = << >>
  /\ fileContent = << >>
  /\ newContent = << >>
  /\ lastIndex = 0
  /\ reIndex = 0
  /\ modified = FALSE
  /\ examined = 0
  /\ writeLog = << >>

\* the extension pass is not in use
ExtIdle ==
  /\ exists = {} /\ chunks = << >> /\ content = << >> /\ before = << >>
  /\ pass = 0 /\ queue = << >> /\ pc = "idle" /\ cur = << >>
  /\ fileContent = << >> /\ newContent = << >> /\ lastIndex = 0 /\ reIndex = 0
  /\ modified = FALSE /\ examined = 0 /\ writeLog = << >>

\* the statement rewriter is not in use
StIdle ==
  /\ stImports = << >> /\ stTypes = {} /\ stTypeOnly = FALSE
  /\ stIndent = << >> /\ stFn = "none" /\ stOut = << >>

\* fixImportsInFile is not in use
FxIdle ==
  /\ fxLines = << >> /\ fxErrors = {} /\ fxPc = "idle" /\ fxStatements = << >>
  /\ fxUpdated = << >> /\ fxOffset = 0 /\ fxWritten = << >>

\* parseTscOutput is not in use
TscIdle == tscLines = << >> /\ tscErrors = << >> /\ tscDone = FALSE

\* groupErrorsByFileLine is not in use
GrIdle == grErrors = << >> /\ grGrouped = << >> /\ grDone = FALSE

\* parseImportStatement is not in use
PlIdle == plLine = << >> /\ plResult = [ok |-> FALSE] /\ plDone = FALSE

\* the command line of the extension pass is not in use
\* parseErrorOutput is not in use
EoIdle == eoLines = << >> /\ eoErrors = << >> /\ eoDone = FALSE

WkIdle ==
  /\ wkArg = << >> /\ wkDisk = << >> /\ wkNeeds = {} /\ wkStack = << >>
  /\ wkPc = "idle" /\ wkReaddirs = << >> /\ wkProcessed = << >> /\ wkWritten = << >>
  /\ wkLog = << >>

\* neither migrateImports nor migrateFromErrorOutput is in use
RunIdle ==
  /\ runFn = "none" /\ runOut = << >> /\ runDisk = << >> /\ runErrors = << >>
  /\ runQueue = << >> /\ runPc = "idle" /\ runVisited = << >> /\ runReads = << >>
  /\ runWrites = << >> /\ runLog = << >>

\* every part of the program but g is not in use
IdleExcept(g) ==
  /\ IF g = "ext" THEN TRUE ELSE ExtIdle
  /\ IF g = "st" THEN TRUE ELSE StIdle
  /\ IF g = "fx" THEN TRUE ELSE FxIdle
  /\ IF g = "tsc" THEN TRUE ELSE TscIdle
  /\ IF g = "gr" THEN TRUE ELSE GrIdle
  /\ IF g = "pl" THEN TRUE ELSE PlIdle
  /\ IF g = "run" THEN TRUE ELSE RunIdle
  /\ IF g = "wk" THEN TRUE ELSE WkIdle
  /\ IF g = "eo" THEN TRUE ELSE EoIdle

\* processDirectory hands the next file to processFile, which reads it
ReadFile ==
  /\ pc = "walk"
  /\ queue # << >>
  /\ cur' = Head(queue)
  /\ queue' = Tail(queue)
  /\ fileContent' = content[Head(queue)]
  /\ newContent' = << >>
  /\ lastIndex' = 0
  /\ reIndex' = 0
  /\ modified' = FALSE
  /\ examined' = 0
  /\ pc' = "scan"
  /\ UNCHANGED <<exists, chunks, content, before, pass, writeLog>>
  /\ UNCHANGED nonExtVars

\* one iteration of  while ((match = importRegex.exec(fileContent)) !== null)
ExamineMatch ==
  /\ pc = "scan"
  /\ LET match == importRegex(fileContent, reIndex)
     IN /\ match.found
        /\ LET importPath == match.path
               resolvedPath == PathResolve(Dirname(cur), importPath)
               newImportPath == importPath \o TS
               rewrite == LacksExtension(importPath) /\ AccessOk(exists, resolvedPath)
           IN /\ reIndex' = match.index + Len(match.text)
              /\ examined' = examined + 1
              /\ IF rewrite
                 THEN /\ newContent' = newContent
                                         \o Substring(fileContent, lastIndex, match.index)
                                         \o StringReplace(match.text, importPath, newImportPath)
                      /\ lastIndex' = match.index + Len(match.text)
                      /\ modified' = TRUE
                 ELSE UNCHANGED <<newContent, lastIndex, modified>>
  /\ UNCHANGED <<exists, chunks, content, before, pass, queue, pc, cur, fileContent, writeLog>>
  /\ UNCHANGED nonExtVars

\* exec returned null: the file is written when it was modified
FinishFile ==
  /\ pc = "scan"
  /\ ~importRegex(fileContent, reIndex).found
  /\ IF WriteNeeded(modified)
     THEN /\ content' = [content EXCEPT ![cur] =
                           newContent \o Substring(fileContent, lastIndex, Len(fileContent))]
          /\ writeLog' = Append(writeLog, [file |-> cur, pass |-> pass, examined |-> examined])
     ELSE UNCHANGED <<content, writeLog>>
  /\ pc' = "walk"
  /\ UNCHANGED <<exists, chunks, before, pass, queue, cur, fileContent, newContent,
                 lastIndex, reIndex, modified, examined>>
  /\ UNCHANGED nonExtVars

\* processDirectory has returned; it is run a second time on the tree it left
SecondRun ==
  /\ pc = "walk"
  /\ queue = << >>
  /\ pass = 1
  /\ pass' = 2
  /\ before' = content
  /\ queue' = processDirectory(exists, RootDir)
  /\ UNCHANGED <<exists, chunks, content, pc, cur, fileContent, newContent, lastIndex,
                 reIndex, modified, examined, writeLog>>
  /\ UNCHANGED nonExtVars

\* the second run has returned
Finish ==
  /\ pc = "walk"
  /\ queue = << >>
  /\ pass = 2
  /\ pc' = "done"
  /\ UNCHANGED <<exists, chunks, content, before, pass, queue, cur, fileContent, newContent,
                 lastIndex, reIndex, modified, examined, writeLog>>
  /\ UNCHANGED nonExtVars

Next == ReadFile \/ ExamineMatch \/ FinishFile \/ SecondRun \/ Finish

Init == ExtInit /\ IdleExcept("ext")

Spec == Init /\ [][Next]_vars

-----------------------------------------------------------------------------
(* What the claims about the extension pass speak of *)

\* the text a file was created with
Orig(f) == TextOf(chunks[f])

\* the source files whose statements vary
Sources == {FileA, FileC}

\* The positions of o after which '.ts' was inserted to give w (0: before the
\* first token); -1 is in the set when w is not o with '.ts' inserted.
RECURSIVE InsertedAfter(_, _, _, _)
InsertedAfter(o, w, i, k) ==
  IF i > Len(o) /\ k > Len(w) THEN {}
  ELSE IF i <= Len(o) /\ k <= Len(w) /\ o[i] = w[k] THEN InsertedAfter(o, w, i + 1, k + 1)
  ELSE IF k + 1 <= Len(w) /\ w[k] = "." /\ w[k + 1] = "ts"
       THEN {i - 1} \cup InsertedAfter(o, w, i, k + 2)
  ELSE {-1}

\* the insertions the first run made in file f (read once the runs are over:
\* before then holds the text the first run left)
Inserted(f) == InsertedAfter(Orig(f), before[f], 1, 1)

\* where statement i of cs starts (0-based offset) and where its path lies
ChunkOffset(cs, i) == Len(TextOf(SubSeq(cs, 1, i - 1)))
PathFrom(cs, i) == ChunkOffset(cs, i) + Len(ChunkHead(cs[i])) + 1
PathTo(cs, i) == ChunkOffset(cs, i) + Len(ChunkHead(cs[i])) + Len(cs[i].path)

\* an insertion after one of these positions changes the quoted path of statement i
PathRegion(cs, i) == (PathFrom(cs, i) - 1)..PathTo(cs, i)

\* statement i of file f is an import / export ... from
IsFromStmt(f, i) == chunks[f][i].kind = "stmt"

\* its specifier begins with a dot, so the pattern matches it
IsMatched(f, i) == IsFromStmt(f, i) /\ chunks[f][i].path[1] = "."

\* its specifier begins with './' or '../'
IsRelative(path) ==
  \/ (Len(path) >= 2 /\ SubSeq(path, 1, 2) = <<".", "/">>)
  \/ (Len(path) >= 3 /\ SubSeq(path, 1, 3) = <<".", ".", "/">>)

\* the specifier already ends in '.ts' or '.js'
HasSuffix(path) ==
  \/ (Len(path) >= 2 /\ SubSeq(path, Len(path) - 1, Len(path)) \in {TS, JS})

\* The file '<resolved>.ts' a specifier of file f names, looked up in the tree
\* (not computed with the code's path functions).
TargetFile(f, path) ==
  CASE path = PathB /\ f = FileA -> FileB
    [] path = PathB \o JS /\ f = FileA -> FileBJs
    [] path = PathCfg /\ f = FileA -> FileCfg
    [] path = PathUpB /\ f = FileC -> FileB
    [] OTHER -> << >>

TargetOnDisk(f, path) == TargetFile(f, path) \in exists

\* statement i of file f is one the pass should rewrite
Rewritable(f, i) ==
  /\ IsMatched(f, i)
  /\ ~HasSuffix(chunks[f][i].path)
  /\ TargetOnDisk(f, chunks[f][i].path)

Stmts(f) == 1..Len(chunks[f])

\* both runs are over; before holds what the first run left, content what the second left
FirstRunOver == pc = "done"

-----------------------------------------------------------------------------
(* Claims about the extension pass *)

\* C1: idempotence.  Once both runs of processDirectory are over, the second
\* run has written no file and every file reads as it did after the first run.
C1_SecondRunChangesNothing ==
  pc = "done" =>
    /\ \A f \in Files : content[f] = before[f]
    /\ \A k \in 1..Len(writeLog) : writeLog[k].pass # 2

\* C2: no-guess.  A matched specifier whose '<resolved>.ts' is not on disk is
\* left as it was, and a file none of whose matched specifiers has its target
\* on disk reads after the run exactly as before.
C2_NoGuess ==
  FirstRunOver =>
    \A f \in Sources :
      /\ -1 \notin Inserted(f)
      /\ \A i \in Stmts(f) :
           (IsMatched(f, i) /\ ~TargetOnDisk(f, chunks[f][i].path))
             => Inserted(f) \cap PathRegion(chunks[f], i) = {}
      /\ (\A i \in Stmts(f) : IsMatched(f, i) => ~TargetOnDisk(f, chunks[f][i].path))
           => before[f] = Orig(f)

\* C2 witness: the first run rewrote a.ts, which also holds a matched specifier
\* whose target is missing
C2_Witness ==
  /\ FirstRunOver
  /\ before[FileA] # Orig(FileA)
  /\ \E i \in Stmts(FileA) :
       IsMatched(FileA, i) /\ ~TargetOnDisk(FileA, chunks[FileA][i].path)

\* C3: the pass changes nothing but the module specifiers of import / export
\* ... from statements: every insertion is at the end of the path of such a
\* statement.
C3_OnlySpecifiersChange ==
  FirstRunOver =>
    \A f \in Sources :
      Inserted(f) \subseteq {PathTo(chunks[f], i) : i \in {j \in Stmts(f) : IsFromStmt(f, j)}}

\* C4: every import / export ... from statement with a relative specifier that
\* has no '.ts' / '.js' suffix and whose target is on disk has '.ts' appended
\* to its specifier.
C4_EveryQualifyingSpecifierRewritten ==
  FirstRunOver =>
    \A f \in Sources : \A i \in Stmts(f) :
      (Rewritable(f, i) /\ IsRelative(chunks[f][i].path))
        => PathTo(chunks[f], i) \in Inserted(f)

\* the matched specifiers of file f
Matched(f) == {i \in Stmts(f) : IsMatched(f, i)}

C6_OnlyRelativeSpecifiers ==
  FirstRunOver =>
    \A f \in Sources : \A i \in Stmts(f) :
      (IsFromStmt(f, i) /\ ~IsRelative(chunks[f][i].path))
        => Inserted(f) \cap PathRegion(chunks[f], i) = {}

\* C7: a specifier of an import / export ... from statement that already ends
\* in '.ts' or '.js' is never modified, whether or not '<resolved>.ts' exists.
C7_SuffixedSpecifierKept ==
  FirstRunOver =>
    \A f \in Sources : \A i \in Stmts(f) :
      (IsFromStmt(f, i) /\ HasSuffix(chunks[f][i].path))
        => Inserted(f) \cap PathRegion(chunks[f], i) = {}

\* C7 witness: a.ts holds a specifier ending in '.js' whose '<resolved>.ts' is
\* on disk and one ending in '.ts' whose '<resolved>.ts' is not, and the first
\* run rewrote another specifier of a.ts
C7_Witness ==
  /\ FirstRunOver
  /\ before[FileA] # Orig(FileA)
  /\ \E i, j \in Stmts(FileA) :
       /\ IsFromStmt(FileA, i) /\ chunks[FileA][i].path = PathB \o JS
       /\ TargetOnDisk(FileA, chunks[FileA][i].path)
       /\ IsFromStmt(FileA, j) /\ chunks[FileA][j].path = PathB \o TS
       /\ ~TargetOnDisk(FileA, chunks[FileA][j].path)

-----------------------------------------------------------------------------
(* The statement rewriter of the type-only pass *)

\* A string of the type-only pass is a sequence of tokens; "\n" breaks lines.
\* A name between braces is itself a token sequence: <<"A">>, or <<"type", "A">>
\* for an inline type modifier.

\* names.join(sep)
RECURSIVE Join(_, _)
Join(ss, sep) ==
  IF ss = << >> THEN << >>
  ELSE IF Len(ss) = 1 THEN ss[1]
  ELSE ss[1] \o sep \o Join(Tail(ss), sep)

\* s.split(sep) for a one-token separator
\* (v is the value of s and k the place of its first separator)
RECURSIVE Split(_, _)
Split(s, sep) ==
  CHOOSE pieces \in
    {IF \A j \in 1..Len(v) : v[j] # sep THEN <<v>>
     ELSE <<SubSeq(v, 1, k - 1)>> \o Split(SubSeq(v, k + 1, Len(v)), sep) :
       v \in {s}, k \in {Min({j \in 1..Len(s) : s[j] = sep} \cup {Len(s) + 1})}} : TRUE

Module == <<"\"", "m", "\"">>

\* `import { ${names.join(', ')} } from "${module}";`
ValueLine(names) == <<"import", "{">> \o Join(names, <<",">>) \o <<"}", "from">> \o Module \o <<";">>

\* `import type { ${names.join(', ')} } from "${module}";`
TypeLine(names) ==
  <<"import", "type", "{">> \o Join(names, <<",">>) \o <<"}", "from">> \o Module \o <<";">>

\* typeOnlyImports.includes(imp.name)
Includes(types, name) == \E t \in types : name = <<t>>

\* a filter that keeps every name
RegularImports_All(imports, types) == imports

\* importStatement.imports.filter(imp => !typeOnlyImports.includes(imp.name))
RegularImports(imports, types) == SelectSeq(imports, LAMBDA n : ~Includes(types, n))

\* importStatement.imports.filter(imp => typeOnlyImports.includes(imp.name))
TypeImports(imports, types) == SelectSeq(imports, LAMBDA n : Includes(types, n))

\* a rewriter that pushes both statements whatever the two lists hold
updateImportStatement_AlwaysBoth(imports, types) ==
  Join(<<ValueLine(RegularImports(imports, types)), TypeLine(TypeImports(imports, types))>>,
       <<"\n">>)

\* updateImportStatement(importStatement, typeOnlyImports)
updateImportStatement(imports, types) ==
  LET regularImports == RegularImports(imports, types)
      typeImports == TypeImports(imports, types)
      statements ==
        (IF Len(regularImports) > 0 THEN <<ValueLine(regularImports)>> ELSE << >>)
          \o (IF Len(typeImports) > 0 THEN <<TypeLine(typeImports)>> ELSE << >>)
  IN Join(statements, <<"\n">>)

\* imp.replace(/^type\s+/, '').trim()
CleanImport(imp) == IF Len(imp) > 1 /\ imp[1] = "type" THEN Tail(imp) ELSE imp

\* the loop of generateNewImportStatement: names of types go, cleaned, to
\* typeImports, the others go as written to valueImports
GenValueImports(imports, types) ==
  SelectSeq(imports, LAMBDA imp : ~Includes(types, CleanImport(imp)))

GenTypeImports(imports, types) ==
  LET picked == SelectSeq(imports, LAMBDA imp : Includes(types, CleanImport(imp)))
  IN [k \in 1..Len(picked) |-> CleanImport(picked[k])]

\* generateNewImportStatement(importStatement, typeIdentifiers, indent)
generateNewImportStatement(fullImport, imports, hasTypeOnly, types, indent) ==
  IF hasTypeOnly THEN fullImport
  ELSE LET valueImports == GenValueImports(imports, types)
           typeImports == GenTypeImports(imports, types)
           statements ==
             (IF Len(valueImports) > 0 THEN <<indent \o ValueLine(valueImports)>> ELSE << >>)
               \o (IF Len(typeImports) > 0 THEN <<indent \o TypeLine(typeImports)>> ELSE << >>)
       IN Join(statements, <<"\n">>)

\* the identifiers of the enumerated statements
Names == {"A", "B", "v"}

\* the names an enumerated statement may hold between its braces
Entries == {<<n>> : n \in Names} \cup {<<"type", "A">>}

Indents == {<< >>, <<" ", " ">>}

\* ImportStatement.fullImport of a statement with these names
FullImport(imports, hasTypeOnly, indent) ==
  indent \o (IF hasTypeOnly THEN TypeLine(imports) ELSE ValueLine(imports))

StInit ==
  /\ stImports \in SeqsUpTo(Entries, MaxNames)
  /\ stTypes \in SUBSET Names
  /\ stTypeOnly \in BOOLEAN
  /\ stIndent \in Indents
  /\ stFn = "none"
  /\ stOut = << >>

\* migrator.updateImportStatement(importStatement, typeOnlyImports)
CallUpdate ==
  /\ stFn = "none"
  /\ ~stTypeOnly
  /\ stFn' = "update"
  /\ stOut' = updateImportStatement(stImports, stTypes)
  /\ UNCHANGED <<stImports, stTypes, stTypeOnly, stIndent>>
  /\ UNCHANGED nonStVars

\* migrator.generateNewImportStatement(importStatement, typeIdentifiers, indent)
CallGenerate ==
  /\ stFn = "none"
  /\ stFn' = "generate"
  /\ stOut' = generateNewImportStatement(FullImport(stImports, stTypeOnly, stIndent),
                                         stImports, stTypeOnly, stTypes, stIndent)
  /\ UNCHANGED <<stImports, stTypes, stTypeOnly, stIndent>>
  /\ UNCHANGED nonStVars

StNext == CallUpdate \/ CallGenerate

InitStmt == StInit /\ IdleExcept("st")

SpecStmt == InitStmt /\ [][StNext]_vars

-----------------------------------------------------------------------------
(* Claims about the statement rewriter *)

\* the lines of a returned string; the empty string holds no statement
LinesOf(out) == IF out = << >> THEN << >> ELSE Split(out, "\n")

\* a line without its leading blanks
RECURSIVE TrimStart(_)
TrimStart(l) == IF l # << >> /\ l[1] = " " THEN TrimStart(Tail(l)) ELSE l

\* the number of blanks a line starts with
LeadingBlanks(l) == Len(l) - Len(TrimStart(l))

StartsWith(l, prefix) == Len(l) >= Len(prefix) /\ SubSeq(l, 1, Len(prefix)) = prefix

IsTypeLine(l) == StartsWith(TrimStart(l), <<"import", "type", "{">>)
IsValueLine(l) == StartsWith(TrimStart(l), <<"import", "{">>)

\* the tokens between the braces of a line
BraceInner(l) ==
  LET open == Min({k \in 1..Len(l) : l[k] = "{"})
      close == Min({k \in 1..Len(l) : l[k] = "}"})
  IN SubSeq(l, open + 1, close - 1)

\* the names between the braces of a line
BraceNames(l) == IF BraceInner(l) = << >> THEN << >> ELSE Split(BraceInner(l), ",")

\* The name an entry binds.  updateImportStatement works on the names as they
\* are written; generateNewImportStatement looks at a name without its inline
\* 'type' modifier.
NameOf(e) == IF stFn = "generate" THEN CleanImport(e) ELSE e

NamesOf(es) == [k \in 1..Len(es) |-> NameOf(es[k])]

RECURSIVE ConcatAll(_)
ConcatAll(ss) == IF ss = << >> THEN << >> ELSE Head(ss) \o ConcatAll(Tail(ss))

\* the names of all value-import lines, and of all type-only lines, of stOut
ValueNamesOut ==
  NamesOf(ConcatAll([k \in 1..Len(SelectSeq(LinesOf(stOut), IsValueLine)) |->
                       BraceNames(SelectSeq(LinesOf(stOut), IsValueLine)[k])]))
TypeNamesOut ==
  NamesOf(ConcatAll([k \in 1..Len(SelectSeq(LinesOf(stOut), IsTypeLine)) |->
                       BraceNames(SelectSeq(LinesOf(stOut), IsTypeLine)[k])]))

Count(s, x) == Cardinality({k \in 1..Len(s) : s[k] = x})
Range(s) == {s[k] : k \in 1..Len(s)}

\* C8: conservation.  The names of the value-import line together with those
\* of the type-only line are the statement's names, each as often as the
\* statement holds it, and no name is in both lines.
C8_NamesConserved ==
  stFn # "none" =>
    /\ \A n \in Range(NamesOf(stImports)) \cup Range(ValueNamesOut) \cup Range(TypeNamesOut) :
         Count(NamesOf(stImports), n) = Count(ValueNamesOut, n) + Count(TypeNamesOut, n)
    /\ Range(ValueNamesOut) \cap Range(TypeNamesOut) = {}

\* C8 witness: generateNewImportStatement split a statement of three names,
\* one of them written with an inline type modifier, into two lines
C8_Witness ==
  /\ stFn = "generate" /\ ~stTypeOnly
  /\ Len(stImports) = 3
  /\ <<"type", "A">> \in Range(stImports)
  /\ ValueNamesOut # << >> /\ TypeNamesOut # << >>

\* s is t with some elements left out
RECURSIVE IsSubsequence(_, _)
IsSubsequence(s, t) ==
  IF s = << >> THEN TRUE
  ELSE IF t = << >> THEN FALSE
  ELSE IF Head(s) = Head(t) THEN IsSubsequence(Tail(s), Tail(t))
  ELSE IsSubsequence(s, Tail(t))

\* the name is one the diagnostics call a type
InTypeSet(e) == Includes(stTypes, NameOf(e))

-----------------------------------------------------------------------------
(* parseImportStatements and fixImportsInFile (src/unnamed/part_003) *)

\* A file is a sequence of lines, a line a sequence of tokens.  Tokens of a
\* line are one blank apart, so ' from ' is in a string when "from" is neither
\* its first nor its last token.

\* line.trim()
RECURSIVE TrimEnd(_)
TrimEnd(l) == IF l # << >> /\ l[Len(l)] = " " THEN TrimEnd(SubSeq(l, 1, Len(l) - 1)) ELSE l
Trim(l) == TrimEnd(TrimStart(l))

\* line.startsWith('import ') && !line.startsWith('import type ')
StartsImport(line) ==
  /\ Len(line) >= 2 /\ line[1] = "import"
  /\ ~(Len(line) >= 3 /\ line[2] = "type")

\* s.includes(';')
HasSemicolon(s) == \E k \in 1..Len(s) : s[k] = ";"

\* s.includes(' from ')
HasFromClause(s) == \E k \in 2..(Len(s) - 1) : s[k] = "from"

\* The while loop of parseImportStatements: lines are appended to the
\* statement until it holds ';' or ' from ', or the file ends.
RECURSIVE Accumulate(_, _, _)
Accumulate(lines, fullStatement, currentLine) ==
  IF HasSemicolon(fullStatement) \/ HasFromClause(fullStatement) THEN fullStatement
  ELSE IF currentLine + 1 > Len(lines) THEN fullStatement
  ELSE Accumulate(lines, fullStatement \o Trim(lines[currentLine + 1]), currentLine + 1)

\* fullStatement.match(/from\s+['"]([^'"]+)['"]/): the module, << >> without a match
ModuleMatch(s) ==
  LET hits == {k \in 1..(Len(s) - 3) :
                 /\ s[k] = "from" /\ IsQuote(s[k + 1])
                 /\ ~IsQuote(s[k + 2]) /\ IsQuote(s[k + 3])}
  IN IF hits = {} THEN << >> ELSE <<s[Min(hits) + 2]>>

\* fullStatement.match(/import\s*\{([^}]+)\}/): the text between the braces,
\* << >> without a match
ImportsMatch(s) ==
  LET hits == {k \in 1..(Len(s) - 3) :
                 /\ s[k] = "import" /\ s[k + 1] = "{" /\ s[k + 2] # "}"
                 /\ \E c \in (k + 3)..Len(s) : s[c] = "}"}
  IN IF hits = {} THEN << >>
     ELSE LET k == Min(hits)
              c == Min({j \in (k + 3)..Len(s) : s[j] = "}"})
          IN SubSeq(s, k + 2, c - 1)

\* importsString.split(',').map(trim).filter(imp => imp.length > 0)
ImportNames(importsString) ==
  SelectSeq([k \in 1..Len(Split(importsString, ",")) |-> Trim(Split(importsString, ",")[k])],
            LAMBDA imp : Len(imp) > 0)

\* parseImportStatements(fileContent), from line i on
RECURSIVE ParseFrom(_, _)
ParseFrom(lines, i) ==
  IF i > Len(lines) THEN << >>
  ELSE LET line == Trim(lines[i])
           fullStatement == Accumulate(lines, line, i)
       IN IF StartsImport(line) /\ ModuleMatch(fullStatement) # << >>
                                /\ ImportsMatch(fullStatement) # << >>
          THEN <<[line |-> i,
                  fullStatement |-> fullStatement,
                  module |-> ModuleMatch(fullStatement),
                  imports |-> ImportNames(ImportsMatch(fullStatement))]>>
                 \o ParseFrom(lines, i + 1)
          ELSE ParseFrom(lines, i + 1)

parseImportStatements(lines) == ParseFrom(lines, 1)

\* a lookup that returns the type names of all the diagnostics of the file
ErrorsByLine_AnyLine(errors, line) == {e[2] : e \in errors}

\* errorsByLine.get(line) || []: the type names of the diagnostics of a line
ErrorsByLine(errors, line) == {e[2] : e \in {x \in errors : x[1] = line}}

\* the search for the end of the statement, with 0-based line numbers:
\*   while (endLine < lines.length - 1 && !lines[endLine].includes(';')) endLine++
RECURSIVE EndLine(_, _)
EndLine(lines, endLine) ==
  IF endLine < Len(lines) - 1 /\ ~HasSemicolon(lines[endLine + 1])
  THEN EndLine(lines, endLine + 1)
  ELSE endLine

\* arr.splice(start, deleteCount, ...items) on a copy, start 0-based
Splice(arr, start, deleteCount, items) ==
  LET from == IF start > Len(arr) THEN Len(arr) ELSE IF start < 0 THEN 0 ELSE start
      cnt == IF deleteCount > Len(arr) - from THEN Len(arr) - from ELSE deleteCount
  IN SubSeq(arr, 1, from) \o items \o SubSeq(arr, from + cnt + 1, Len(arr))

\* the lines of the enumerated files
LineImport     == <<"import", "{", "A", ",", "v", "}", "from", "\"", "m", "\"", ";">>
LineImportBare == <<"import", "{", "B", ",", "v", "}", "from", "'", "m", "'">>
LineOpen       == <<"import", "{">>
LineRest       == <<"A", ",", "B", "}", "from", "\"", "m", "\"", ";">>
LineCode       == <<"const", "x", "=", "1", ";">>
LineCall       == <<"v", "(", ")">>
LineType       == <<"import", "type", "{", "T", "}", "from", "\"", "m", "\"", ";">>
\* a side-effect import without a semicolon, and an indented import
LineBare       == <<"import", "'", "x", "'">>
LineIndented   == <<" ", " ">> \o LineImport

LinePool == {LineImport, LineImportBare, LineOpen, LineRest, LineCode, LineCall, LineType,
             LineBare, LineIndented}

TypeNames == {"A", "B"}

\* a file in which every "import {" line is completed by the line after it,
\* and every completing line follows an "import {" line
WellFormedFile(lines) ==
  \A i \in 1..Len(lines) :
    /\ lines[i] = LineOpen => (i < Len(lines) /\ lines[i + 1] = LineRest)
    /\ lines[i] = LineRest => (i > 1 /\ lines[i - 1] = LineOpen)

\* the files are well-formed and the diagnostics name lines of the file
FxInit ==
  /\ fxLines \in {ls \in SeqsUpTo(LinePool, MaxLines) \ {<< >>} : WellFormedFile(ls)}
  /\ fxErrors \in {E \in SUBSET ((1..Len(fxLines)) \X TypeNames) : Cardinality(E) <= MaxErrors}
  /\ fxPc = "start"
  /\ fxStatements = << >>
  /\ fxUpdated = << >>
  /\ fxOffset = 0
  /\ fxWritten = <<"none">>

\* fixImportsInFile up to the for loop: the file is read and parsed; without
\* an error for the file the method returns
FxRead ==
  /\ fxPc = "start"
  /\ IF fxErrors = {}
     THEN /\ fxPc' = "done"
          /\ UNCHANGED <<fxStatements, fxUpdated>>
     ELSE /\ fxPc' = "loop"
          /\ fxStatements' = parseImportStatements(fxLines)
          /\ fxUpdated' = fxLines
  /\ UNCHANGED <<fxLines, fxErrors, fxOffset, fxWritten>>
  /\ UNCHANGED nonFxVars

\* the body of  for (const importStatement of importStatements): the splice
\* for one statement, on updatedLines and lineOffset
SpliceStep(lines, errors, importStatement, updated, offset) ==
  LET typeOnlyImports == ErrorsByLine(errors, importStatement.line)
      startLine == importStatement.line - 1
      endLine == EndLine(lines, startLine)
      newLines == Split(updateImportStatement(importStatement.imports, typeOnlyImports), "\n")
      originalLineCount == endLine - startLine + 1
  IN IF typeOnlyImports # {}
     THEN [updated |-> Splice(updated, startLine + offset, originalLineCount, newLines),
           offset |-> offset + Len(newLines) - originalLineCount]
     ELSE [updated |-> updated, offset |-> offset]

\* one iteration of  for (const importStatement of importStatements)
FxSplice ==
  /\ fxPc = "loop"
  /\ fxStatements # << >>
  /\ \E step \in {SpliceStep(fxLines, fxErrors, Head(fxStatements), fxUpdated, fxOffset)} :
        /\ fxUpdated' = step.updated
        /\ fxOffset' = step.offset
  /\ fxStatements' = Tail(fxStatements)
  /\ UNCHANGED <<fxLines, fxErrors, fxPc, fxWritten>>
  /\ UNCHANGED nonFxVars

\* after the loop: writeFile(filePath, updatedLines.join('\n'))
FxWrite ==
  /\ fxPc = "loop"
  /\ fxStatements = << >>
  /\ fxWritten' = Split(Join(fxUpdated, <<"\n">>), "\n")
  /\ fxPc' = "done"
  /\ UNCHANGED <<fxLines, fxErrors, fxStatements, fxUpdated, fxOffset>>
  /\ UNCHANGED nonFxVars

FxNext == FxRead \/ FxSplice \/ FxWrite

InitFix == FxInit /\ IdleExcept("fx")

SpecFix == InitFix /\ [][FxNext]_vars

-----------------------------------------------------------------------------
(* Claims about fixImportsInFile *)

\* the statements of the file that a diagnostic names
Diagnosed == {k \in 1..Len(parseImportStatements(fxLines)) :
                ErrorsByLine(fxErrors, parseImportStatements(fxLines)[k].line) # {}}

\* the line that ends the statement that starts on line s: the line of its
\* from clause
StatementEnd(lines, s) ==
  LET ends == {j \in s..Len(lines) : ModuleMatch(lines[j]) # << >>}
  IN IF ends = {} THEN Len(lines) ELSE Min(ends)

\* the file with the span of each diagnosed statement replaced by the lines
\* of updateImportStatement, every other line kept
RECURSIVE ExpectedFrom(_, _, _)
ExpectedFrom(lines, errors, i) ==
  IF i > Len(lines) THEN << >>
  ELSE LET here == {k \in 1..Len(parseImportStatements(lines)) :
                      parseImportStatements(lines)[k].line = i}
       IN IF here # {} /\ ErrorsByLine(errors, i) # {}
          THEN LET st == parseImportStatements(lines)[CHOOSE k \in here : TRUE]
               IN Split(updateImportStatement(st.imports, ErrorsByLine(errors, i)), "\n")
                    \o ExpectedFrom(lines, errors, StatementEnd(lines, i) + 1)
          ELSE <<lines[i]>> \o ExpectedFrom(lines, errors, i + 1)

FxOver == fxPc = "done" /\ fxWritten # <<"none">>

\* C10: the content fixImportsInFile writes is the original sequence of lines
\* in which the span of every diagnosed import statement, its first line
\* through the line that ends it, is replaced by the lines updateImportStatement
\* returns for it, and every line outside those spans is kept in place; this
\* holds for several diagnosed statements in one file and for a statement
\* without a terminating semicolon.
C10_SpliceReplacesStatementSpans ==
  FxOver => fxWritten = ExpectedFrom(fxLines, fxErrors, 1)

\* the lines of the file that belong to a diagnosed statement
DiagnosedSpan ==
  UNION {LET st == parseImportStatements(fxLines)[k]
         IN st.line..StatementEnd(fxLines, st.line) : k \in Diagnosed}

\* the type-only import lines of the file outside every diagnosed statement
TypeOnlyLines == {i \in 1..Len(fxLines) : fxLines[i] = LineType /\ i \notin DiagnosedSpan}

\* C12: a statement that is already a type-only import is left unchanged by
\* the type-only pass for every diagnostic input: generateNewImportStatement
\* returns its text unchanged, parseImportStatements does not list it, and the
\* line is in the written file as it was.
C12_TypeOnlyStatementKept ==
  /\ \A types \in SUBSET (TypeNames \cup {"T"}) :
       generateNewImportStatement(LineType, << <<"T">> >>, TRUE, types, << >>) = LineType
  /\ \A k \in 1..Len(parseImportStatements(fxLines)) :
       fxLines[parseImportStatements(fxLines)[k].line] # LineType
  /\ FxOver => Count(fxWritten, LineType) >= Cardinality(TypeOnlyLines)

-----------------------------------------------------------------------------
(* parseTscOutput and resolveFilePath (src/unnamed/part_003) *)

\* Compiler output is text in which every blank is a token of its own: the
\* pattern of parseTscOutput asks for blanks in some places and for none in
\* others.  A number is a run of digit tokens.

Digits == {"0", "1", "2", "3", "4", "5", "6", "7", "8", "9"}
Blanks == {" "}

DigitVal(t) ==
  CASE t = "0" -> 0 [] t = "1" -> 1 [] t = "2" -> 2 [] t = "3" -> 3 [] t = "4" -> 4
    [] t = "5" -> 5 [] t = "6" -> 6 [] t = "7" -> 7 [] t = "8" -> 8 [] t = "9" -> 9

\* parseInt(digits)
RECURSIVE ParseInt(_)
ParseInt(ds) ==
  IF ds = << >> THEN 0 ELSE 10 * ParseInt(SubSeq(ds, 1, Len(ds) - 1)) + DigitVal(ds[Len(ds)])

\* the token at position i, "" past the ends
At(s, i) == IF i \in 1..Len(s) THEN s[i] ELSE ""

\* the last position of the run of tokens that start at j and are in T (member
\* TRUE) or are not in T (member FALSE); j - 1 when the run is empty
RunEnd(s, j, member, T) ==
  LET stops == {i \in j..Len(s) : (s[i] \in T) # member}
  IN IF j > Len(s) THEN j - 1 ELSE IF stops = {} THEN Len(s) ELSE Min(stops) - 1

\* a test of the error code that accepts every code
IsTargetCode_AnyCode(t) == t # ""

\* the error code both patterns ask for
IsTargetCode(t) == t = "TS1484"

\* The positions of a match of
\*   /^(.+):(\d+):(\d+)\s+-\s+error\s+TS1484:\s+'([^']+)'\s+is\s+a\s+type/
\* whose first ':' is at k
TscMatchAt(s, k) ==
  LET a  == RunEnd(s, k + 1, TRUE, Digits)
      b  == RunEnd(s, a + 2, TRUE, Digits)
      s1 == RunEnd(s, b + 1, TRUE, Blanks)
      s2 == RunEnd(s, s1 + 2, TRUE, Blanks)
      s3 == RunEnd(s, s2 + 2, TRUE, Blanks)
      s4 == RunEnd(s, s3 + 3, TRUE, Blanks)
      n  == RunEnd(s, s4 + 2, FALSE, {"'"})
      s5 == RunEnd(s, n + 2, TRUE, Blanks)
      s6 == RunEnd(s, s5 + 2, TRUE, Blanks)
      s7 == RunEnd(s, s6 + 2, TRUE, Blanks)
  IN [ok |-> /\ k >= 2 /\ At(s, k) = ":"
             /\ a >= k + 1 /\ At(s, a + 1) = ":"
             /\ b >= a + 2
             /\ s1 >= b + 1 /\ At(s, s1 + 1) = "-"
             /\ s2 >= s1 + 2 /\ At(s, s2 + 1) = "error"
             /\ s3 >= s2 + 2 /\ IsTargetCode(At(s, s3 + 1)) /\ At(s, s3 + 2) = ":"
             /\ s4 >= s3 + 3 /\ At(s, s4 + 1) = "'"
             /\ n >= s4 + 2 /\ At(s, n + 1) = "'"
             /\ s5 >= n + 2 /\ At(s, s5 + 1) = "is"
             /\ s6 >= s5 + 2 /\ At(s, s6 + 1) = "a"
             /\ s7 >= s6 + 2 /\ At(s, s7 + 1) = "type",
      filePath |-> SubSeq(s, 1, k - 1),
      lineNum |-> SubSeq(s, k + 1, a),
      columnNum |-> SubSeq(s, a + 2, b),
      typeName |-> SubSeq(s, s4 + 2, n),
      isAt |-> s5 + 1]

\* line.match(...): the greedy (.+) takes the longest prefix that lets the
\* rest match
TscMatch(s) ==
  LET ks == {k \in {j \in 1..Len(s) : s[j] = ":"} : TscMatchAt(s, k).ok}
  IN IF ks = {} THEN [ok |-> FALSE]
     ELSE TscMatchAt(s, CHOOSE k \in ks : \A j \in ks : j <= k)

\* this.basePath, as segments
BasePath == << <<"r">> >>

\* a path of segments as a string
PathString(segs) == Flatten([k \in 1..Len(segs) |-> <<"/">> \o segs[k]])

\* path.isAbsolute(filePath)
IsAbsolute(filePath) == filePath # << >> /\ filePath[1] = "/"

\* a resolveFilePath that hands every path back as it is
resolveFilePath_AsGiven(filePath) == filePath

\* resolveFilePath(filePath)
resolveFilePath(filePath) ==
  IF IsAbsolute(filePath) THEN filePath
  ELSE PathString(PathResolve(BasePath, filePath))

\* the for loop of parseTscOutput over the lines of the output
RECURSIVE TscErrorsOf(_)
TscErrorsOf(lines) ==
  IF lines = << >> THEN << >>
  ELSE LET line == Trim(Head(lines))
           errorMatch == TscMatch(line)
       IN (IF errorMatch.ok
           THEN <<[filePath |-> resolveFilePath(Trim(errorMatch.filePath)),
                   line |-> ParseInt(errorMatch.lineNum),
                   column |-> ParseInt(errorMatch.columnNum),
                   typeName |-> Trim(errorMatch.typeName),
                   errorMessage |-> line]>>
           ELSE << >>) \o TscErrorsOf(Tail(lines))

\* parseTscOutput(tscOutput)
parseTscOutput(tscOutput) == TscErrorsOf(Split(tscOutput, "\n"))

\* the lines of the enumerated outputs
Diag(indent, path, line, col, code, name) ==
  [kind |-> "diag", indent |-> indent, path |-> path, line |-> line, col |-> col,
   code |-> code, name |-> name]

DiagText(d) ==
  d.indent \o d.path \o <<":">> \o d.line \o <<":">> \o d.col
    \o <<" ", "-", " ", "error", " ", d.code, ":", " ", "'", d.name, "'",
         " ", "is", " ", "a", " ", "type", " ", "and">>

\* src/a.ts, /abs/a.ts, src/my file.ts, ../b.ts
RelPath   == <<"src", "/", "a", ".", "ts">>
AbsPath   == <<"/", "abs", "/", "a", ".", "ts">>
SpacePath == <<"src", "/", "my", " ", "file", ".", "ts">>
UpPath    == <<".", ".", "/", "b", ".", "ts">>

\* a line of source text under a diagnostic, with its line number
SnippetLine ==
  [kind |-> "snippet",
   text |-> <<"1", " ", "import", " ", "{", " ", "A", " ", "}", " ", "from", " ",
              "\"", "m", "\"", ";">>]

\* a line of source text that quotes a diagnostic in a comment
QuoteLine ==
  [kind |-> "snippet",
   text |-> <<"7", " ", "/", "/", " ">>
              \o DiagText(Diag(<< >>, RelPath, <<"1">>, <<"1", "0">>, "TS1484", "A"))]

MarkLine  == [kind |-> "mark", text |-> <<" ", " ", " ", "~", "~">>]
FreeLine  == [kind |-> "text", text |-> <<"Found", " ", "2", " ", "errors", ".">>]
BlankLine == [kind |-> "text", text |-> << >>]

OutPool ==
  { Diag(<< >>, RelPath, <<"1">>, <<"1", "0">>, "TS1484", "A"),
    Diag(<<" ", " ">>, AbsPath, <<"2">>, <<"1", "0">>, "TS1484", "B"),
    Diag(<< >>, SpacePath, <<"1", "2">>, <<"3">>, "TS1484", "A"),
    Diag(<< >>, UpPath, <<"1">>, <<"1", "0">>, "TS1484", "B"),
    Diag(<< >>, RelPath, <<"3">>, <<"1", "0">>, "TS2304", "A"),
    SnippetLine, QuoteLine, MarkLine, FreeLine, BlankLine }

OutLineText(l) == IF l.kind = "diag" THEN DiagText(l) ELSE l.text

\* the output as one string
OutText(ls) == Join([k \in 1..Len(ls) |-> OutLineText(ls[k])], <<"\n">>)

TscInit ==
  /\ tscLines \in SeqsUpTo(OutPool, MaxOutLines)
  /\ tscErrors = << >>
  /\ tscDone = FALSE

\* migrator.parseTscOutput(tscOutput)
CallParseTscOutput ==
  /\ ~tscDone
  /\ tscErrors' = parseTscOutput(OutText(tscLines))
  /\ tscDone' = TRUE
  /\ UNCHANGED tscLines
  /\ UNCHANGED nonTscVars

TscNext == CallParseTscOutput

InitTsc == TscInit /\ IdleExcept("tsc")

SpecTsc == InitTsc /\ [][TscNext]_vars

-----------------------------------------------------------------------------
(* Claims about parseTscOutput *)

\* the lines of the output that are TS1484 diagnostics, in input order
TargetLines == SelectSeq(tscLines, LAMBDA l : l.kind = "diag" /\ l.code = "TS1484")

\* C11: parseTscOutput returns exactly one ImportError per line that is a
\* TS1484 diagnostic, in input order, and none for any other line (a
\* diagnostic of another code, a source snippet, free text); an input without
\* a TS1484 line yields the empty sequence.
C11_OneErrorPerTargetLine ==
  tscDone =>
    /\ Len(tscErrors) = Len(TargetLines)
    /\ \A k \in 1..Len(tscErrors) :
         /\ tscErrors[k].errorMessage = Trim(DiagText(TargetLines[k]))
         /\ tscErrors[k].typeName = <<TargetLines[k].name>>
         /\ tscErrors[k].line = ParseInt(TargetLines[k].line)

\* the absolute path the file of a diagnostic stands for, with the base /r
ExpectedPath(p) ==
  CASE p = RelPath   -> <<"/", "r", "/", "src", "/", "a", ".", "ts">>
    [] p = AbsPath   -> AbsPath
    [] p = SpacePath -> <<"/", "r", "/", "src", "/", "my", " ", "file", ".", "ts">>
    [] p = UpPath    -> <<"/", "b", ".", "ts">>

\* C19: the relative file path of a diagnostic is resolved against the base
\* path and an absolute one is kept as it is, for every diagnostic line, a
\* path with blanks included.
C19_PathsResolvedAgainstBase ==
  tscDone =>
    \A i \in 1..Len(tscLines) :
      (tscLines[i].kind = "diag" /\ tscLines[i].code = "TS1484") =>
        /\ \E k \in 1..Len(tscErrors) :
             tscErrors[k].errorMessage = Trim(DiagText(tscLines[i]))
        /\ \A k \in 1..Len(tscErrors) :
             tscErrors[k].errorMessage = Trim(DiagText(tscLines[i]))
               => tscErrors[k].filePath = ExpectedPath(tscLines[i].path)

\* parseTscOutput has returned errors for a relative path, an absolute path
\* and a path with blanks
C19_Witness ==
  /\ tscDone
  /\ \E k \in 1..Len(tscErrors) : tscErrors[k].filePath = ExpectedPath(RelPath)
  /\ \E k \in 1..Len(tscErrors) : tscErrors[k].filePath = AbsPath
  /\ \E k \in 1..Len(tscErrors) : tscErrors[k].filePath = ExpectedPath(SpacePath)

-----------------------------------------------------------------------------
(* groupErrorsByFileLine (src/type-only-import-migrator.ts) *)

\* A Map is the sequence of its <<key, value>> entries in insertion order.
MapKeys(m) == [k \in 1..Len(m) |-> m[k][1]]
MapHas(m, key) == \E k \in 1..Len(m) : m[k][1] = key
MapGet(m, key) == m[CHOOSE k \in 1..Len(m) : m[k][1] = key][2]

\* m.set(key, value): the value of a key in the map is replaced where it is,
\* a new key goes to the end
MapSet(m, key, value) ==
  IF MapHas(m, key)
  THEN [k \in 1..Len(m) |-> IF m[k][1] = key THEN <<key, value>> ELSE m[k]]
  ELSE Append(m, <<key, value>>)

\* a push that puts the error in front
PushError_Front(list, error) == <<error>> \o list

\* fileErrors.get(error.line)!.push(error)
PushError(list, error) == Append(list, error)

\* the body of errors.forEach in groupErrorsByFileLine
GroupOne(grouped, error) ==
  LET g1 == IF ~MapHas(grouped, error.file) THEN MapSet(grouped, error.file, << >>)
            ELSE grouped
      fileErrors == MapGet(g1, error.file)
      f1 == IF ~MapHas(fileErrors, error.line) THEN MapSet(fileErrors, error.line, << >>)
            ELSE fileErrors
      f2 == MapSet(f1, error.line, PushError(MapGet(f1, error.line), error))
  IN MapSet(g1, error.file, f2)

RECURSIVE GroupFrom(_, _)
GroupFrom(errors, grouped) ==
  IF errors = << >> THEN grouped
  ELSE GroupFrom(Tail(errors), GroupOne(grouped, Head(errors)))

\* groupErrorsByFileLine(errors)
groupErrorsByFileLine(errors) == GroupFrom(errors, << >>)

\* the errors of the enumerated inputs
FileNames == {<<"a", ".", "ts">>, <<"b", ".", "ts">>}

ErrorPool ==
  [file : FileNames, line : {1, 3}, column : {10}, typeIdentifier : {"A", "B"},
   module : {"m"}]

GrInit ==
  /\ grErrors \in SeqsUpTo(ErrorPool, MaxGroupErrors)
  /\ grGrouped = << >>
  /\ grDone = FALSE

\* migrator.groupErrorsByFileLine(errors)
CallGroupErrors ==
  /\ ~grDone
  /\ grGrouped' = groupErrorsByFileLine(grErrors)
  /\ grDone' = TRUE
  /\ UNCHANGED grErrors
  /\ UNCHANGED nonGrVars

GrNext == CallGroupErrors

InitGroup == GrInit /\ IdleExcept("gr")

SpecGroup == InitGroup /\ [][GrNext]_vars

-----------------------------------------------------------------------------
(* Claims about groupErrorsByFileLine *)

\* the values of a sequence in order of first occurrence
FirstOccurrences(s) ==
  LET firsts == {k \in 1..Len(s) : \A j \in 1..(k - 1) : s[j] # s[k]}
      RECURSIVE Pick(_)
      Pick(k) == IF k > Len(s) THEN << >>
                 ELSE (IF k \in firsts THEN <<s[k]>> ELSE << >>) \o Pick(k + 1)
  IN Pick(1)

FilesOf(errors) == [k \in 1..Len(errors) |-> errors[k].file]
LinesOfFile(errors, f) ==
  LET own == SelectSeq(errors, LAMBDA e : e.file = f)
  IN [k \in 1..Len(own) |-> own[k].line]

\* C18: groupErrorsByFileLine partitions its input: each error is exactly
\* once in the result, under grouped[error.file][error.line]; the errors of
\* one file and line keep their input order, and files and lines are keyed in
\* order of first occurrence.
C18_GroupingPartitionsInput ==
  grDone =>
    /\ MapKeys(grGrouped) = FirstOccurrences(FilesOf(grErrors))
    /\ \A i \in 1..Len(grGrouped) :
         LET f == grGrouped[i][1]
             byLine == grGrouped[i][2]
         IN /\ MapKeys(byLine) = FirstOccurrences(LinesOfFile(grErrors, f))
            /\ \A j \in 1..Len(byLine) :
                 byLine[j][2] =
                   SelectSeq(grErrors, LAMBDA e : e.file = f /\ e.line = byLine[j][1])

\* three errors were grouped: two of one file and line around one of another
\* file
C18_Witness ==
  /\ grDone
  /\ Len(grErrors) = 3
  /\ grErrors[1].file = grErrors[3].file /\ grErrors[1].line = grErrors[3].line
  /\ grErrors[1] # grErrors[3]
  /\ grErrors[2].file # grErrors[1].file
  /\ Len(grGrouped) = 2

-----------------------------------------------------------------------------
(* parseImportStatement (src/type-only-import-migrator.ts) *)

\* A source line is a sequence of tokens one blank apart; blanks at its start
\* are tokens of their own.

Null == [ok |-> FALSE]

\* \{\s*([^}]+)\s*\}\s+from\s+["']([^"']+)["'] with the '{' at b: the names
\* between the braces and the module
BraceMatch(t, b) ==
  LET closes == {c \in (b + 1)..Len(t) : t[c] = "}"}
      c == IF closes = {} THEN 0 ELSE Min(closes)
  IN IF /\ At(t, b) = "{" /\ c > 0
        /\ At(t, c + 1) = "from" /\ IsQuote(At(t, c + 2))
        /\ c + 3 <= Len(t) /\ ~IsQuote(At(t, c + 3)) /\ IsQuote(At(t, c + 4))
     THEN [ok |-> TRUE, names |-> SubSeq(t, b + 1, c - 1), module |-> <<t[c + 3]>>]
     ELSE Null

\* match[2].split(',').map(imp => imp.trim())
SplitNames(names) == [k \in 1..Len(Split(names, ",")) |-> Trim(Split(names, ",")[k])]

\* a first pattern that accepts any keyword in front of the braces
Pattern1_AnyKeyword(t) ==
  LET m == BraceMatch(t, 2)
  IN IF m.ok
     THEN [ok |-> TRUE, imports |-> SplitNames(m.names), module |-> m.module]
     ELSE Null

\* /^(\s*)import\s+\{\s*([^}]+)\s*\}\s+from\s+["']([^"']+)["']/ after the indent
Pattern1(t) ==
  LET m == BraceMatch(t, 2)
  IN IF At(t, 1) = "import" /\ m.ok
     THEN [ok |-> TRUE, imports |-> SplitNames(m.names), module |-> m.module]
     ELSE Null

\* /^(\s*)import\s+type\s+\{\s*([^}]+)\s*\}\s+from\s+["']([^"']+)["']/
Pattern2(t) ==
  LET m == BraceMatch(t, 3)
  IN IF At(t, 1) = "import" /\ At(t, 2) = "type" /\ m.ok
     THEN [ok |-> TRUE, imports |-> SplitNames(m.names), module |-> m.module]
     ELSE Null

\* /^(\s*)import\s+([^,{]+),?\s*\{\s*([^}]+)\s*\}\s+from\s+["']([^"']+)["']/
\* the default import is the text up to the first ',' or '{'
Pattern3(t) ==
  LET stops == {j \in 2..Len(t) : t[j] \in {",", "{"}}
      j == IF stops = {} THEN 0 ELSE Min(stops)
      b == IF At(t, j) = "," THEN j + 1 ELSE j
      m == BraceMatch(t, b)
  IN IF At(t, 1) = "import" /\ j >= 3 /\ m.ok
     THEN [ok |-> TRUE,
           imports |-> <<Trim(SubSeq(t, 2, j - 1))>> \o SplitNames(m.names),
           module |-> m.module]
     ELSE Null

\* importLine.includes('import type')
HasImportType(importLine) ==
  \E k \in 1..(Len(importLine) - 1) : importLine[k] = "import" /\ importLine[k + 1] = "type"

\* The \s+ and \s* of the patterns take a run of blanks and line breaks
\* wherever one stands between two tokens, and trim() takes those around a
\* name: a text matches as the text with its tokens one blank apart does.
Squeeze(t) == SelectSeq(t, LAMBDA tok : tok \notin {" ", "\n"})

\* parseImportStatement(importLine): the first pattern that matches
parseImportStatement(importLine) ==
  LET t == Squeeze(TrimStart(importLine))
      match == IF Pattern1(t).ok THEN Pattern1(t)
               ELSE IF Pattern2(t).ok THEN Pattern2(t)
               ELSE Pattern3(t)
  IN IF match.ok
     THEN [ok |-> TRUE, line |-> 0, fullImport |-> importLine, module |-> match.module,
           imports |-> match.imports, hasTypeOnly |-> HasImportType(importLine)]
     ELSE Null

\* the lines of the enumerated calls
LineNamespace == <<"import", "*", "as", "m", "from", "\"", "m", "\"", ";">>
LineRequire   == <<"const", "m", "=", "require", "(", "\"", "m", "\"", ")", ";">>
LineReexport  == <<"export", "{", "A", "}", "from", "\"", "m", "\"", ";">>
LineDefault   == <<"import", "d", "from", "\"", "m", "\"", ";">>
LineSideEffect == <<"import", "\"", "m", "\"", ";">>
LineDefaultNamed == <<"import", "d", ",", "{", "A", "}", "from", "\"", "m", "\"", ";">>
LineDefaultStar == <<"import", "d", ",", "*", "as", "m", "from", "\"", "m", "\"", ";">>
\* an alias, blanks around every token, the brace clause over several lines
LineAlias     == <<"import", "{", "A", "as", "AliasA", ",", "B", "}", "from", "\"", "m", "\"", ";">>
LineSpaced    == <<"import", " ", " ", "{", " ", " ", "A", ",", " ", " ", "B", " ", " ", "}",
                   " ", " ", "from", " ", " ", "\"", "m", "\"", " ", " ", ";">>
LineMultiline == <<"import", "{", "\n", " ", " ", "A", ",", "\n", " ", " ", "B", "\n", "}",
                   "from", "\"", "m", "\"", ";">>

\* kind "named": a destructured named import; the other kinds are not
PlBodies ==
  { [kind |-> "named", body |-> LineImport],
    [kind |-> "named", body |-> LineImportBare],
    [kind |-> "named", body |-> LineType],
    [kind |-> "named", body |-> LineDefaultNamed],
    [kind |-> "named", body |-> LineAlias],
    [kind |-> "named", body |-> LineSpaced],
    [kind |-> "named", body |-> LineMultiline],
    [kind |-> "namespace", body |-> LineNamespace],
    [kind |-> "namespace", body |-> LineDefaultStar],
    [kind |-> "require", body |-> LineRequire],
    [kind |-> "reexport", body |-> LineReexport],
    [kind |-> "other", body |-> LineDefault],
    [kind |-> "other", body |-> LineSideEffect],
    [kind |-> "other", body |-> LineOpen],
    [kind |-> "other", body |-> LineRest],
    [kind |-> "other", body |-> LineCode],
    [kind |-> "other", body |-> LineCall],
    [kind |-> "other", body |-> << >>] }

PlIndents == {<< >>, <<" ">>, <<" ", " ">>}
PlTrailers == {<< >>, <<"//", "x">>}

PlText(l) == l.indent \o l.body \o l.trailer

PlInit ==
  /\ plLine \in [kind : {"named", "namespace", "require", "reexport", "other"},
                 body : {b.body : b \in PlBodies},
                 indent : PlIndents, trailer : PlTrailers]
  /\ [kind |-> plLine.kind, body |-> plLine.body] \in PlBodies
  /\ plResult = Null
  /\ plDone = FALSE

\* migrator.parseImportStatement(importLine)
CallParseImportStatement ==
  /\ ~plDone
  /\ plResult' = parseImportStatement(PlText(plLine))
  /\ plDone' = TRUE
  /\ UNCHANGED plLine
  /\ UNCHANGED nonPlVars

PlNext == CallParseImportStatement

InitLine == PlInit /\ IdleExcept("pl")

SpecLine == InitLine /\ [][PlNext]_vars

-----------------------------------------------------------------------------
(* Claims about parseImportStatement *)

\* C20: parseImportStatement returns null for every line that is not a
\* destructured named import: a namespace import, a require call, a
\* re-export, and any line that is not an import.
C20_NullForOtherLines ==
  (plDone /\ plLine.kind # "named") => plResult = Null

\* null was returned for a re-export or a namespace import
C20_Witness ==
  /\ plDone
  /\ \/ plLine.kind = "reexport" /\ plResult = Null
     \/ plLine.kind = "namespace" /\ plResult = Null

-----------------------------------------------------------------------------
(* parseErrorOutput, processFile and migrateFromErrorOutput                  *)
(* (src/type-only-import-migrator.ts); migrateImports (src/unnamed/part_003) *)

\* an identifier is one token
Ident(tokens) == tokens[1]

\* line.match(/^(.+?):(\d+):(\d+)\s+-\s+error\s+TS1484:\s+'([^']+)'\s+is a type/):
\* the lazy (.+?) takes the shortest prefix that lets the rest match
ErrorMatch(s) ==
  LET ks == {k \in {j \in 1..Len(s) : s[j] = ":"} :
               /\ TscMatchAt(s, k).ok
               /\ SubSeq(s, TscMatchAt(s, k).isAt, Min({Len(s), TscMatchAt(s, k).isAt + 4}))
                    = <<"is", " ", "a", " ", "type">>}
  IN IF ks = {} THEN [ok |-> FALSE] ELSE TscMatchAt(s, Min(ks))

\* importLine.match(/^\d+\s+import\s+.*from\s+"([^"]+)"/)
SnippetMatch(l) ==
  LET d  == RunEnd(l, 1, TRUE, Digits)
      b1 == RunEnd(l, d + 1, TRUE, Blanks)
      b2 == RunEnd(l, b1 + 2, TRUE, Blanks)
      fs == {f \in (b2 + 1)..Len(l) :
               LET g == RunEnd(l, f + 1, TRUE, Blanks)
                   h == RunEnd(l, g + 2, FALSE, {"\""})
               IN /\ l[f] = "from" /\ g >= f + 1 /\ At(l, g + 1) = "\""
                  /\ h >= g + 2 /\ At(l, h + 1) = "\""}
  IN IF d >= 1 /\ b1 >= d + 1 /\ At(l, b1 + 1) = "import" /\ b2 >= b1 + 2 /\ fs # {}
     THEN LET f == CHOOSE x \in fs : \A y \in fs : y <= x
              g == RunEnd(l, f + 1, TRUE, Blanks)
          IN [ok |-> TRUE, moduleName |-> SubSeq(l, g + 2, RunEnd(l, g + 2, FALSE, {"\""}))]
     ELSE [ok |-> FALSE]

\* a look ahead over all the lines after line i
LookAhead_AnyLater(lines, i) ==
  LET js == {j \in (i + 1)..Len(lines) : SnippetMatch(lines[j]).ok}
  IN IF js = {} THEN [ok |-> FALSE] ELSE SnippetMatch(lines[Min(js)])

\* the look ahead of parseErrorOutput: the first of the two lines after line i
\* that shows an import
LookAhead(lines, i) ==
  LET js == {j \in (i + 1)..Min({Len(lines), i + 2}) : SnippetMatch(lines[j]).ok}
  IN IF js = {} THEN [ok |-> FALSE] ELSE SnippetMatch(lines[Min(js)])

\* the for loop of parseErrorOutput, from line i on
RECURSIVE ErrorsFrom(_, _)
ErrorsFrom(lines, i) ==
  IF i > Len(lines) THEN << >>
  ELSE LET errorMatch == ErrorMatch(Trim(lines[i]))
       IN (IF errorMatch.ok /\ LookAhead(lines, i).ok
           THEN <<[file |-> errorMatch.filePath,
                   line |-> ParseInt(errorMatch.lineNum),
                   column |-> ParseInt(errorMatch.columnNum),
                   typeIdentifier |-> Ident(errorMatch.typeName),
                   module |-> LookAhead(lines, i).moduleName]>>
           ELSE << >>) \o ErrorsFrom(lines, i + 1)

\* parseErrorOutput(errorOutput)
parseErrorOutput(errorOutput) == ErrorsFrom(Split(errorOutput, "\n"), 1)

\* the lines of the enumerated error outputs: snippets of an import from
\* "m", from "n" and from 'm'
Snippet(quote, module) ==
  [kind |-> "snippet", quote |-> quote, module |-> module,
   text |-> <<"1", " ", "import", " ", "{", " ", "A", " ", "}", " ", "from", " ",
              quote, module, quote, ";">>]

EoPool ==
  { Diag(<< >>, RelPath, <<"1">>, <<"1", "0">>, "TS1484", "A"),
    Diag(<< >>, RelPath, <<"3">>, <<"1", "0">>, "TS2304", "A"),
    Snippet("\"", "m"), Snippet("\"", "n"), Snippet("'", "m"),
    MarkLine, BlankLine }

EoInit ==
  /\ eoLines \in SeqsUpTo(EoPool, MaxErrLines)
  /\ eoErrors = << >>
  /\ eoDone = FALSE

\* migrator.parseErrorOutput(errorOutput)
CallParseErrorOutput ==
  /\ ~eoDone
  /\ \E errors \in {parseErrorOutput(OutText(eoLines))} : eoErrors' = errors
  /\ eoDone' = TRUE
  /\ UNCHANGED eoLines
  /\ UNCHANGED nonEoVars

EoNext == CallParseErrorOutput

InitErr == EoInit /\ IdleExcept("eo")

SpecErr == InitErr /\ [][EoNext]_vars

\* Array.from(fileErrors.keys()).sort((a, b) => b - a)
RECURSIVE SortDescending(_)
SortDescending(S) ==
  IF S = {} THEN << >>
  ELSE LET m == CHOOSE x \in S : \A y \in S : y <= x
       IN <<m>> \o SortDescending(S \ {m})

\* an indent that is always the empty string
IndentOf_None(line) == << >>

\* originalLine.match(/^(\s*)/)[1]
IndentOf(line) == SubSeq(line, 1, RunEnd(line, 1, TRUE, Blanks))

\* The for loop of processFile over the line numbers.  lines[lineIndex] is
\* undefined for a number outside the file, and parseImportStatement throws a
\* TypeError on it.
RECURSIVE ProcessLines(_, _, _, _)
ProcessLines(lines, fileErrors, numbers, modifiedLines) ==
  IF numbers = << >> THEN [thrown |-> FALSE, lines |-> modifiedLines]
  ELSE LET lineNumber == Head(numbers)
       IN IF lineNumber \notin 1..Len(lines)
          THEN [thrown |-> TRUE, lines |-> modifiedLines]
          ELSE LET originalLine == lines[lineNumber]
                   importStatement == parseImportStatement(originalLine)
                   lineErrors == MapGet(fileErrors, lineNumber)
                   typeIdentifiers ==
                     {lineErrors[k].typeIdentifier : k \in 1..Len(lineErrors)}
               IN IF ~importStatement.ok
                  THEN ProcessLines(lines, fileErrors, Tail(numbers), modifiedLines)
                  ELSE ProcessLines(lines, fileErrors, Tail(numbers),
                         [modifiedLines EXCEPT ![lineNumber] =
                            generateNewImportStatement(importStatement.fullImport,
                              importStatement.imports, importStatement.hasTypeOnly,
                              typeIdentifiers, IndentOf(originalLine))])

\* a loop that ends after the first line number
ProcessContent_FirstNumberOnly(lines, fileErrors) ==
  CHOOSE result \in
    {[thrown |-> r.thrown, lines |-> Split(Join(r.lines, <<"\n">>), "\n")] :
       r \in {ProcessLines(lines, fileErrors,
                           SubSeq(SortDescending({fileErrors[k][1] : k \in 1..Len(fileErrors)}),
                                  1, 1),
                           lines)}} : TRUE

\* processFile between the read and the write: the lines of newContent
ProcessContent(lines, fileErrors) ==
  CHOOSE result \in
    {[thrown |-> r.thrown, lines |-> Split(Join(r.lines, <<"\n">>), "\n")] :
       r \in {ProcessLines(lines, fileErrors,
                           SortDescending({fileErrors[k][1] : k \in 1..Len(fileErrors)}),
                           lines)}} : TRUE

\* the for loop of fixImportsInFile over the statements
RECURSIVE SpliceAll(_, _, _, _, _)
SpliceAll(statements, lines, errors, updated, offset) ==
  IF statements = << >> THEN updated
  ELSE LET step == SpliceStep(lines, errors, Head(statements), updated, offset)
       IN SpliceAll(Tail(statements), lines, errors, step.updated, step.offset)

\* fixImportsInFile between the read and the write: the lines of updatedContent
FixContent(lines, errors) ==
  Split(Join(SpliceAll(parseImportStatements(lines), lines, errors, lines, 0), <<"\n">>), "\n")

\* Array.from(new Set(this.errors.map(error => error.filePath)))
RECURSIVE Unique(_)
Unique(s) ==
  IF s = << >> THEN << >>
  ELSE LET rest == Unique(SubSeq(s, 1, Len(s) - 1))
       IN IF \E k \in 1..Len(rest) : rest[k] = s[Len(s)] THEN rest
          ELSE Append(rest, s[Len(s)])

\* a list that names a file once for each of its errors
getFilesWithErrors_WithRepeats(errors) == [k \in 1..Len(errors) |-> errors[k].filePath]

\* a list of files that stops after the first file
getFilesWithErrors_FirstOnly(errors) == <<errors[1].filePath>>

\* getFilesWithErrors()
getFilesWithErrors(errors) == Unique([k \in 1..Len(errors) |-> errors[k].filePath])

\* the name of a file on the disk for a path of the program; the process runs
\* in the base directory /r
DiskName(p) == IF IsAbsolute(p) THEN SubSeq(p, 4, Len(p)) ELSE p

\* the files of the enumerated runs, each with two lines: a.ts holds an import
\* and a line of code, b.ts an indented import and a type-only import
FileLines(p) ==
  IF DiskName(p) = <<"a", ".", "ts">> THEN <<LineImport, LineCode>>
  ELSE <<LineIndented, LineType>>

ExistsSync(disk, p) == DiskName(p) \in DOMAIN disk /\ disk[DiskName(p)] # "missing"
ReadOk(disk, p) == disk[DiskName(p)] \in {"ok", "readonly"}
WriteOk(disk, p) == disk[DiskName(p)] = "ok"

\* a diagnostic with the blank line and the source snippet tsc prints after it
Block(file, line, code) ==
  <<Diag(<< >>, file, line, <<"1", "0">>, code, "A"), BlankLine, SnippetLine>>

BlockPool ==
  {Block(f, l, "TS1484") : f \in FileNames, l \in {<<"1">>, <<"2">>, <<"3">>}}
    \cup {Block(<<"a", ".", "ts">>, <<"1">>, "TS2304")}

RunInit ==
  /\ runFn \in {"migrateImports", "migrateFromErrorOutput"}
  /\ runOut \in {Flatten(bs) : bs \in SeqsUpTo(BlockPool, MaxBlocks)}
  /\ runDisk \in [FileNames -> {"ok", "missing", "unreadable", "readonly"}]
  /\ runErrors = << >>
  /\ runQueue = << >>
  /\ runPc = "start"
  /\ runVisited = << >>
  /\ runReads = << >>
  /\ runWrites = << >>
  /\ runLog = << >>


\* migrateImports up to the loop over the files: without an error it returns
MigrateImportsStart ==
  /\ runFn = "migrateImports" /\ runPc = "start"
  /\ \E errors \in {parseTscOutput(OutText(runOut))} :
        /\ runErrors' = errors
        /\ IF Len(errors) = 0
           THEN runPc' = "done" /\ runQueue' = << >>
           ELSE runPc' = "files" /\ runQueue' = getFilesWithErrors(errors)
  /\ UNCHANGED <<runFn, runOut, runDisk, runVisited, runReads, runWrites, runLog>>
  /\ UNCHANGED nonRunVars

\* this.errors.filter(error => error.filePath === filePath), as <<line, typeName>>
ErrorsOfFile(errors, filePath) ==
  {<<errors[k].line, Ident(errors[k].typeName)>> :
     k \in {j \in 1..Len(errors) : errors[j].filePath = filePath}}

\* one iteration of  for (const filePath of filesToFix): fixImportsInFile, which
\* catches what the read and the write throw
FixImportsInFile ==
  /\ runFn = "migrateImports" /\ runPc = "files" /\ runQueue # << >>
  /\ LET filePath == Head(runQueue)
     IN /\ runVisited' = Append(runVisited, filePath)
        /\ IF ~ExistsSync(runDisk, filePath)
           THEN /\ runLog' = Append(runLog, filePath)
                /\ UNCHANGED <<runReads, runWrites>>
           ELSE /\ runReads' = Append(runReads, filePath)
                /\ IF ReadOk(runDisk, filePath) /\ WriteOk(runDisk, filePath)
                   THEN /\ runWrites' =
                             Append(runWrites,
                                    <<filePath,
                                      FixContent(FileLines(filePath), ErrorsOfFile(runErrors, filePath))>>)
                        /\ UNCHANGED runLog
                   ELSE /\ runLog' = Append(runLog, filePath)
                        /\ UNCHANGED runWrites
  /\ runQueue' = Tail(runQueue)
  /\ UNCHANGED <<runFn, runOut, runDisk, runErrors, runPc>>
  /\ UNCHANGED nonRunVars

\* migrateFromErrorOutput up to groupedErrors.forEach: without an error it
\* returns
MigrateFromErrorOutputStart ==
  /\ runFn = "migrateFromErrorOutput" /\ runPc = "start"
  /\ \E errors \in {parseErrorOutput(OutText(runOut))} :
        /\ runErrors' = errors
        /\ IF Len(errors) = 0
           THEN runPc' = "done" /\ runQueue' = << >>
           ELSE runPc' = "files" /\ runQueue' = MapKeys(groupErrorsByFileLine(errors))
  /\ UNCHANGED <<runFn, runOut, runDisk, runVisited, runReads, runWrites, runLog>>
  /\ UNCHANGED nonRunVars

\* one call of the callback of groupedErrors.forEach: processFile, which
\* catches nothing; what it throws ends forEach and migrateFromErrorOutput
ProcessFile ==
  /\ runFn = "migrateFromErrorOutput" /\ runPc = "files" /\ runQueue # << >>
  /\ \E filePath \in {Head(runQueue)} :
     \E fileErrors \in {MapGet(groupErrorsByFileLine(runErrors), filePath)} :
     \E result \in {ProcessContent(FileLines(filePath), fileErrors)} :
        /\ runVisited' = Append(runVisited, filePath)
        /\ IF ~ExistsSync(runDisk, filePath)
           THEN /\ runLog' = Append(runLog, filePath)
                /\ UNCHANGED <<runReads, runWrites, runPc>>
           ELSE /\ runReads' = Append(runReads, filePath)
                /\ UNCHANGED runLog
                /\ IF ReadOk(runDisk, filePath) /\ ~result.thrown /\ WriteOk(runDisk, filePath)
                   THEN /\ runWrites' = Append(runWrites, <<filePath, result.lines>>)
                        /\ UNCHANGED runPc
                   ELSE /\ runPc' = "thrown"
                        /\ UNCHANGED runWrites
  /\ runQueue' = Tail(runQueue)
  /\ UNCHANGED <<runFn, runOut, runDisk, runErrors>>
  /\ UNCHANGED nonRunVars

\* the loop over the files is over
RunFinish ==
  /\ runPc = "files" /\ runQueue = << >>
  /\ runPc' = "done"
  /\ UNCHANGED <<runFn, runOut, runDisk, runErrors, runQueue, runVisited, runReads,
                 runWrites, runLog>>
  /\ UNCHANGED nonRunVars

RunNext ==
  \/ MigrateImportsStart
  \/ FixImportsInFile
  \/ MigrateFromErrorOutputStart
  \/ ProcessFile
  \/ RunFinish

InitRun == RunInit /\ IdleExcept("run")

SpecRun == InitRun /\ [][RunNext]_vars

-----------------------------------------------------------------------------
(* Claims about whole runs of the type-only pass *)

\* the diagnostics of the target code in the input, in input order
RunTargets == SelectSeq(runOut, LAMBDA l : l.kind = "diag" /\ l.code = "TS1484")

\* the files the diagnostics of the target code name, in order of first
\* occurrence, as the running method names them
RunFiles ==
  FirstOccurrences([k \in 1..Len(RunTargets) |->
                      IF runFn = "migrateImports"
                      THEN <<"/", "r", "/">> \o RunTargets[k].path
                      ELSE RunTargets[k].path])

RunOver == runPc \in {"done", "thrown"}

\* the files a write succeeded for
Written == {runWrites[k][1] : k \in 1..Len(runWrites)}

\* C13: when the diagnostic input holds no error of the target code, the
\* empty input included, migrateImports and migrateFromErrorOutput read no
\* source file and write no file.
C13_NoErrorNoFileTouched ==
  RunTargets = << >> => runReads = << >> /\ runWrites = << >> /\ runVisited = << >>

\* a run on an input with a diagnostic of another code only is over
C13_Witness ==
  /\ runPc = "done"
  /\ runOut # << >> /\ RunTargets = << >>
  /\ runDisk = [f \in FileNames |-> "ok"]

\* C14: in migrateImports a file of the diagnostics that does not exist, or
\* whose read or write fails, is logged and nothing is written for it, the
\* method returns normally, and every other file with errors is still
\* processed.
C14_FailureIsolatedInMigrateImports ==
  runFn = "migrateImports" =>
    /\ runPc # "thrown"
    /\ runPc = "done" =>
         /\ runVisited = RunFiles
         /\ \A k \in 1..Len(RunFiles) :
              LET f == RunFiles[k]
              IN IF runDisk[DiskName(f)] = "ok"
                 THEN f \in Written
                 ELSE /\ f \notin Written
                      /\ \E j \in 1..Len(runLog) : runLog[j] = f
         /\ \A k \in 1..Len(runReads) : runDisk[DiskName(runReads[k])] # "missing"

\* migrateImports is over: the first file failed and the second was written
C14_Witness ==
  /\ runFn = "migrateImports" /\ runPc = "done"
  /\ Len(RunFiles) = 2
  /\ runDisk[DiskName(RunFiles[1])] # "ok"
  /\ RunFiles[2] \in Written

\* C15: in migrateFromErrorOutput a failure while one file is processed (a
\* read error, a write error, a diagnosed line that cannot be parsed, a
\* diagnostic whose line number lies beyond the end of the file) does not
\* abort the run: every other file of the grouping is still processed.
C15_FailureIsolatedInMigrateFromErrorOutput ==
  runFn = "migrateFromErrorOutput" =>
    /\ runPc # "thrown"
    /\ runPc = "done" => runVisited = RunFiles

-----------------------------------------------------------------------------
(* main (src/unnamed/part_000) and the failures of processDirectory and      *)
(* processFile (src/migrate-imports.ts)                                      *)

\* the tree of the enumerated runs:
\*   w/a.ts  w/lib/x.ts  w/notes.md  w/sub/c.ts  w/z.ts
\* and two symbolic links: w/l.ts to a file, w/sub/up to the directory w
WkRoot == << <<"w">> >>
WkLib  == WkRoot \o << <<"lib">> >>
WkSub  == WkRoot \o << <<"sub">> >>
WkA    == WkRoot \o << <<"a">> \o TS >>
WkX    == WkLib \o << <<"x">> \o TS >>
WkNotes == WkRoot \o << <<"notes", ".", "md">> >>
WkC    == WkSub \o << <<"c">> \o TS >>
WkZ    == WkRoot \o << <<"z">> \o TS >>
WkMissing == WkRoot \o << <<"nope">> >>

WkDirs == {WkRoot, WkLib, WkSub}
WkFiles == {WkA, WkX, WkNotes, WkC, WkZ}

WkEntry(name, isDir) == [name |-> name, isDirectory |-> isDir, isFile |-> ~isDir]

\* the Dirent of a symbolic link: neither a directory nor a regular file
WkLink(name) == [name |-> name, isDirectory |-> FALSE, isFile |-> FALSE]

\* fs.readdir(directoryPath, {withFileTypes: true}) on a readable directory
WkReadDir(dir) ==
  IF dir = WkRoot
  THEN <<WkEntry(<<"a">> \o TS, FALSE), WkEntry(<<"lib">>, TRUE),
         WkLink(<<"l">> \o TS),
         WkEntry(<<"notes", ".", "md">>, FALSE), WkEntry(<<"sub">>, TRUE),
         WkEntry(<<"z">> \o TS, FALSE)>>
  ELSE IF dir = WkLib THEN <<WkEntry(<<"x">> \o TS, FALSE)>>
  ELSE IF dir = WkSub THEN <<WkEntry(<<"c">> \o TS, FALSE), WkLink(<<"up">>)>>
  ELSE << >>

\* fs.stat(srcDir) does not throw
StatOk(p) == p \in WkDirs \cup WkFiles

\* a test that takes every path for a directory
StatIsDirectory_Always(p) == TRUE

\* stats.isDirectory()
StatIsDirectory(p) == p \in WkDirs

\* the calls in progress when an exception ends them all
Caught_Unwinds(stack) == << >>

\* the calls in progress after the catch of processDirectory or processFile
\* has logged an error: the caller goes on
Caught(stack) == stack

\* a test that takes every regular file
IsTsFile_AnyFile(item) == item.isFile

\* item.isFile() && item.name.endsWith('.ts')
IsTsFile(item) == item.isFile /\ EndsWith(item.name, TS)

WkInit ==
  /\ wkArg \in {<< >>, WkRoot, WkA, WkMissing}
  /\ wkDisk \in [WkDirs \cup WkFiles -> {"ok", "unreadable", "readonly"}]
  /\ wkDisk[WkRoot] = "ok" /\ wkDisk[WkNotes] = "ok"
  /\ \A d \in WkDirs : wkDisk[d] # "readonly"
  /\ wkNeeds \in {S \cup {WkX, WkC} : S \in SUBSET {WkA, WkZ}}
  /\ wkStack = << >>
  /\ wkPc = "main"
  /\ wkReaddirs = << >>
  /\ wkProcessed = << >>
  /\ wkWritten = << >>
  /\ wkLog = << >>

\* the call processDirectory(dir) up to its for loop: readdir, whose failure
\* the catch logs
EnterDirectory(stack, dir) ==
  IF wkDisk[dir] = "ok"
  THEN [stack |-> <<[dir |-> dir, items |-> WkReadDir(dir)]>> \o stack, log |-> << >>]
  ELSE [stack |-> Caught(stack), log |-> <<dir>>]

\* main: the argument is checked and processDirectory is called
Main ==
  /\ wkPc = "main"
  /\ IF wkArg = << >> \/ ~StatOk(wkArg) \/ ~StatIsDirectory(wkArg)
     THEN /\ wkPc' = "exit1"
          /\ UNCHANGED <<wkStack, wkReaddirs, wkLog>>
     ELSE /\ wkPc' = "walk"
          /\ wkReaddirs' = <<wkArg>>
          /\ IF wkArg \in WkDirs
             THEN /\ wkStack' = EnterDirectory(<< >>, wkArg).stack
                  /\ wkLog' = EnterDirectory(<< >>, wkArg).log
             ELSE /\ wkStack' = << >>
                  /\ wkLog' = <<wkArg>>
  /\ UNCHANGED <<wkArg, wkDisk, wkNeeds, wkProcessed, wkWritten>>
  /\ UNCHANGED nonWkVars

\* one iteration of  for (const item of items)  in the innermost call
WalkItem ==
  /\ wkPc = "walk" /\ wkStack # << >> /\ Head(wkStack).items # << >>
  /\ LET frame == Head(wkStack)
         item == Head(frame.items)
         fullPath == frame.dir \o <<item.name>>
         rest == <<[frame EXCEPT !.items = Tail(frame.items)]>> \o Tail(wkStack)
     IN IF item.isDirectory
        THEN /\ wkReaddirs' = Append(wkReaddirs, fullPath)
             /\ wkStack' = EnterDirectory(rest, fullPath).stack
             /\ wkLog' = wkLog \o EnterDirectory(rest, fullPath).log
             /\ UNCHANGED <<wkProcessed, wkWritten>>
        ELSE IF IsTsFile(item)
        THEN /\ wkProcessed' = Append(wkProcessed, fullPath)
             /\ UNCHANGED wkReaddirs
             /\ IF wkDisk[fullPath] = "unreadable"
                   \/ (fullPath \in wkNeeds /\ wkDisk[fullPath] = "readonly")
                THEN /\ wkLog' = Append(wkLog, fullPath)
                     /\ wkStack' = Caught(rest)
                     /\ UNCHANGED wkWritten
                ELSE /\ wkWritten' = IF fullPath \in wkNeeds THEN Append(wkWritten, fullPath)
                                     ELSE wkWritten
                     /\ wkStack' = rest
                     /\ UNCHANGED wkLog
        ELSE /\ wkStack' = rest
             /\ UNCHANGED <<wkReaddirs, wkProcessed, wkWritten, wkLog>>
  /\ UNCHANGED <<wkArg, wkDisk, wkNeeds, wkPc>>
  /\ UNCHANGED nonWkVars

\* the for loop of the innermost call is over: processDirectory returns
WalkReturn ==
  /\ wkPc = "walk" /\ wkStack # << >> /\ Head(wkStack).items = << >>
  /\ wkStack' = Tail(wkStack)
  /\ UNCHANGED <<wkArg, wkDisk, wkNeeds, wkPc, wkReaddirs, wkProcessed, wkWritten, wkLog>>
  /\ UNCHANGED nonWkVars

\* processDirectory(srcDir) has returned to main, which ends
MainEnd ==
  /\ wkPc = "walk" /\ wkStack = << >>
  /\ wkPc' = "exit0"
  /\ UNCHANGED <<wkArg, wkDisk, wkNeeds, wkStack, wkReaddirs, wkProcessed, wkWritten, wkLog>>
  /\ UNCHANGED nonWkVars

WkNext == Main \/ WalkItem \/ WalkReturn \/ MainEnd

InitWalk == WkInit /\ IdleExcept("wk")

SpecWalk == InitWalk /\ [][WkNext]_vars

\* every await of the walk resolves or rejects, so a step that can be taken
\* is taken
SpecWalkLive == SpecWalk /\ WF_vars(WkNext)

-----------------------------------------------------------------------------
(* Claims about the command line and the failures of the extension pass *)

InSeq(s, x) == \E k \in 1..Len(s) : s[k] = x

\* the .ts files of the tree outside the directories that cannot be read, in
\* the order of the walk
WkReachable ==
  <<WkA>> \o (IF wkDisk[WkLib] = "ok" THEN <<WkX>> ELSE << >>)
          \o (IF wkDisk[WkSub] = "ok" THEN <<WkC>> ELSE << >>) \o <<WkZ>>

\* C16: a readdir failure on one subdirectory, or a read or write failure on
\* one file, is caught and logged, and processDirectory still processes every
\* remaining sibling file and subdirectory of the tree.
C16_WalkSurvivesFailures ==
  (wkPc = "exit0") =>
    /\ wkProcessed = WkReachable
    /\ wkReaddirs = <<WkRoot, WkLib, WkSub>>
    /\ \A d \in {WkLib, WkSub} : wkDisk[d] # "ok" => InSeq(wkLog, d)
    /\ \A k \in 1..Len(WkReachable) :
         LET f == WkReachable[k]
             fails == wkDisk[f] = "unreadable" \/ (f \in wkNeeds /\ wkDisk[f] = "readonly")
         IN /\ fails => InSeq(wkLog, f) /\ ~InSeq(wkWritten, f)
            /\ (~fails /\ f \in wkNeeds) => InSeq(wkWritten, f)

\* the walk is over: a subdirectory and the first file failed, and the files
\* after them were written
C16_Witness ==
  /\ wkPc = "exit0"
  /\ wkDisk[WkLib] = "unreadable" /\ wkDisk[WkA] = "unreadable"
  /\ InSeq(wkWritten, WkC) /\ InSeq(wkWritten, WkZ)

\* the argument names an existing directory
WkArgIsDirectory == wkArg \in WkDirs

\* C17: the command line exits with code 1 and processes no file when the
\* directory argument is missing, names a path that does not exist, or names
\* a path that is not a directory; processDirectory is started only for an
\* existing directory.
C17_ExitOneOnBadArgument ==
  /\ ~WkArgIsDirectory =>
       /\ wkPc \in {"main", "exit1"}
       /\ wkReaddirs = << >> /\ wkProcessed = << >> /\ wkWritten = << >>
  /\ wkReaddirs # << >> => WkArgIsDirectory
  /\ wkPc = "exit1" => ~WkArgIsDirectory

\* main has ended with code 1 for a path that is a file
C17_Witness == wkPc = "exit1" /\ wkArg = WkA

-----------------------------------------------------------------------------
(* Claims about parseImportStatements *)

\* the first lines of the non-type named imports of a file
NamedImportLines(lines) ==
  {i \in 1..Len(lines) :
     LET l == Trim(lines[i])
     IN Len(l) >= 2 /\ l[1] = "import" /\ l[2] = "{"}

\* the text of the named import that starts on line i
NamedImportText(lines, i) ==
  IF lines[i] = LineOpen THEN LineOpen \o lines[i + 1] ELSE Trim(lines[i])

\* the names between the braces of a statement, in source order
BoundNames(text) ==
  LET open == Min({k \in 1..Len(text) : text[k] = "{"})
      close == Min({k \in 1..Len(text) : text[k] = "}"})
      inner == SelectSeq(SubSeq(text, open + 1, close - 1), LAMBDA tok : tok # ",")
  IN [k \in 1..Len(inner) |-> <<inner[k]>>]

\* the module between the quotes that follow "from"
QuotedModule(text) ==
  LET f == Min({k \in 1..Len(text) : text[k] = "from"})
  IN <<text[f + 2]>>

FxParsed == fxPc = "loop" /\ fxStatements = parseImportStatements(fxLines)

\* C21: parseImportStatements returns exactly one statement for every
\* non-type named import of the file, on one line or on several, with or
\* without a semicolon, with single or double quotes: its line is the number
\* of the statement's first line, its module the quoted path, its imports the
\* bound names in source order; no other line yields a statement.
C21_OneStatementPerNamedImport ==
  FxParsed =>
     /\ Len(fxStatements) = Cardinality(NamedImportLines(fxLines))
     /\ {fxStatements[k].line : k \in 1..Len(fxStatements)} = NamedImportLines(fxLines)
     /\ \A k \in 1..Len(fxStatements) :
          LET st == fxStatements[k]
          IN st.line \in NamedImportLines(fxLines) =>
               /\ st.module = QuotedModule(NamedImportText(fxLines, st.line))
               /\ st.imports = BoundNames(NamedImportText(fxLines, st.line))

-----------------------------------------------------------------------------
(* Claims about the complex import patterns *)

\* the three statements that import A and B in a complex way
ComplexLines == {LineAlias, LineSpaced, LineMultiline}

InSeq2(x, s) == \E k \in 1..Len(s) : s[k] = x

\* C22: for a named import written with an alias (A as AliasA), with extra
\* whitespace around every token, or with the brace clause split over several
\* lines, parseImportStatement returns a statement whose imports list
\* contains 'A' and 'B'.
C22_ComplexImportsListNames ==
  (plDone /\ plLine.body \in ComplexLines) =>
     /\ plResult.ok
     /\ InSeq2(<<"A">>, plResult.imports)
     /\ InSeq2(<<"B">>, plResult.imports)

-----------------------------------------------------------------------------
(* Claims about the content the type-only pass writes *)

\* the numbers of the lines of a file that the parsed errors name
RunErrorLines(f) ==
  {runErrors[k].line : k \in {j \in 1..Len(runErrors) : runErrors[j].file = f}}

FromErrorOutput == runFn = "migrateFromErrorOutput"

\* C23: generateNewImportStatement starts every line it emits with the given
\* indent, and processFile passes the leading whitespace of the original line
\* as the indent: every line that replaces a rewritten statement starts with
\* the indentation of the original line.
C23_RewrittenLinesKeepIndent ==
  FromErrorOutput =>
    \A k \in 1..Len(runWrites) :
      LET original == FileLines(runWrites[k][1])
          out == runWrites[k][2]
          emitted == Len(out) - Len(original) + 1
      IN 1 \in RunErrorLines(runWrites[k][1]) =>
           \A j \in 1..emitted :
             /\ LeadingBlanks(out[j]) = LeadingBlanks(original[1])
             /\ StartsWith(TrimStart(out[j]), <<"import">>)

\* the indented import of b.ts was rewritten into two indented lines
C23_Witness ==
  /\ FromErrorOutput
  /\ \E k \in 1..Len(runWrites) :
       /\ runWrites[k][1] = <<"b", ".", "ts">>
       /\ Len(runWrites[k][2]) = 3
       /\ StartsWith(runWrites[k][2][1], <<" ", " ", "import", "{">>)
       /\ StartsWith(runWrites[k][2][2], <<" ", " ", "import", "type">>)

-----------------------------------------------------------------------------
(* Claims about the content fixImportsInFile writes *)

IsImportLine(l) == StartsWith(TrimStart(l), <<"import">>)

\* every import of the file is the indented import
AllImportsIndented(lines) ==
  \A i \in 1..Len(lines) : IsImportLine(lines[i]) => lines[i] = LineIndented

\* C24: in fixImportsInFile the lines that replace a rewritten import
\* statement start with the same whitespace as the first line of the
\* statement they replace.
C24_ReplacementKeepsIndent ==
  (FxOver /\ Diagnosed # {} /\ AllImportsIndented(fxLines)) =>
     \A j \in 1..Len(fxWritten) :
       IsImportLine(fxWritten[j]) =>
         LeadingBlanks(fxWritten[j]) = LeadingBlanks(LineIndented)

\* the lines of a file that processFile has to keep: those without a
\* diagnostic and the diagnosed ones that parseImportStatement returns null for
KeptLine(f, i) ==
  \/ i \notin RunErrorLines(f)
  \/ ~parseImportStatement(FileLines(f)[i]).ok

\* the diagnosed lines that hold a statement to rewrite
RewrittenLine(f, i) ==
  /\ i \in RunErrorLines(f)
  /\ parseImportStatement(FileLines(f)[i]).ok
  /\ ~IsTypeLine(FileLines(f)[i])

RECURSIVE SumTo(_, _)
SumTo(spans, n) == IF n = 0 THEN 0 ELSE spans[n] + SumTo(spans, n - 1)

\* C25: in the content processFile writes, every line without a diagnostic
\* and every diagnosed line that cannot be parsed is the original line, at its
\* place among the original lines, and the other diagnosed lines of the file
\* are rewritten all the same.
C25_OtherLinesKept ==
  FromErrorOutput =>
    \A k \in 1..Len(runWrites) :
      LET f == runWrites[k][1]
          original == FileLines(f)
          out == runWrites[k][2]
      IN \E spans \in [1..Len(original) -> 1..2] :
           /\ Len(out) = SumTo(spans, Len(original))
           /\ \A i \in 1..Len(original) :
                /\ KeptLine(f, i) =>
                     spans[i] = 1 /\ out[SumTo(spans, i)] = original[i]
                /\ RewrittenLine(f, i) =>
                     \E j \in (SumTo(spans, i - 1) + 1)..SumTo(spans, i) : IsTypeLine(out[j])

\* a.ts was written with its import rewritten and its diagnosed line of code
\* kept
C25_Witness ==
  /\ FromErrorOutput
  /\ \E k \in 1..Len(runWrites) :
       /\ runWrites[k][1] = <<"a", ".", "ts">>
       /\ RunErrorLines(runWrites[k][1]) = {1, 2}
       /\ Len(runWrites[k][2]) = 3
       /\ IsTypeLine(runWrites[k][2][2])
       /\ runWrites[k][2][3] = LineCode

\* no diagnostic of the file is on the first line of a parsed statement
NoneOnStatement ==
  \E statements \in {parseImportStatements(fxLines)} :
    \A e \in fxErrors : \A k \in 1..Len(statements) : statements[k].line # e[1]

\* C26: in fixImportsInFile a diagnostic whose line number is not the first
\* line of a parsed import statement causes no rewrite: when every diagnostic
\* of the file is of that kind, the content written is the content read.
C26_OffStatementDiagnosticNoRewrite ==
  (FxOver /\ NoneOnStatement) => fxWritten = fxLines

\* a file was written whose only diagnostics are on the second line of a
\* two-line import
C26_Witness ==
  /\ FxOver /\ NoneOnStatement
  /\ \E i \in 1..(Len(fxLines) - 1) :
       /\ fxLines[i] = LineOpen /\ fxLines[i + 1] = LineRest
       /\ \A e \in fxErrors : e[1] = i + 1
  /\ parseImportStatements(fxLines) # << >>

\* the lines of a file that the diagnostics of the target code name
DiagnosedLines(f) ==
  {ParseInt(RunTargets[k].line) :
     k \in {j \in 1..Len(RunTargets) : RunTargets[j].path = DiskName(f)}}

\* every diagnosed line of the file holds a type-only import
AllDiagnosedTypeOnly(f) ==
  \A i \in DiagnosedLines(f) : i \in 1..Len(FileLines(f)) /\ IsTypeLine(FileLines(f)[i])

\* C27: the type-only pass writes a file back whenever the file exists and
\* has at least one diagnostic, even when every diagnosed statement is already
\* type-only; in that case the content written is the content read.
C27_WrittenWheneverDiagnosed ==
  RunOver =>
    \A k \in 1..Len(RunFiles) :
      runDisk[DiskName(RunFiles[k])] = "ok" =>
        /\ RunFiles[k] \in Written
        /\ AllDiagnosedTypeOnly(RunFiles[k]) =>
             \A j \in 1..Len(runWrites) :
               runWrites[j][1] = RunFiles[k] => runWrites[j][2] = FileLines(RunFiles[k])

-----------------------------------------------------------------------------
(* Claims about the order of the files in migrateImports *)

InMigrateImports == runFn = "migrateImports"

\* the files were processed once each, in order of first occurrence, and no
\* file was written twice
EachFileOnce ==
  /\ runPc = "done" => runVisited = RunFiles
  /\ \A j, k \in 1..Len(runVisited) : runVisited[j] = runVisited[k] => j = k
  /\ \A j, k \in 1..Len(runWrites) : runWrites[j][1] = runWrites[k][1] => j = k

\* a step processes at most one file, and what it reads and writes is that
\* file: the write of a file is done before the next file is read
OneFileAtATime ==
  /\ Len(runVisited') <= Len(runVisited) + 1
  /\ runReads' # runReads =>
       /\ runVisited' = Append(runVisited, Head(runQueue))
       /\ runReads' = Append(runReads, Head(runQueue))
  /\ runWrites' # runWrites =>
       /\ runReads' = Append(runReads, Head(runQueue))
       /\ Len(runWrites') = Len(runWrites) + 1
       /\ SubSeq(runWrites', 1, Len(runWrites)) = runWrites
       /\ runWrites'[Len(runWrites')][1] = Head(runQueue)

\* C28: in one migrateImports run each distinct file path of the parsed
\* errors is processed exactly once, in order of first occurrence in the
\* diagnostics, and one at a time, the write of a file being done before the
\* next file is read; no file is written more than once.
C28_EachFileOnceInOrder ==
  /\ [](InMigrateImports => EachFileOnce)
  /\ [][InMigrateImports => OneFileAtATime]_vars

\* a run over two diagnostics of one file wrote the file once
C28_Witness ==
  /\ InMigrateImports /\ runPc = "done"
  /\ Len(RunTargets) = 2 /\ Len(RunFiles) = 1
  /\ Len(runWrites) = 1

-----------------------------------------------------------------------------
(* Claims about the walk of processDirectory *)

\* the regular files of the tree whose name ends in '.ts'
WkTsFiles == {f \in WkFiles : EndsWith(f[Len(f)], TS)}

WkAllReadable == \A d \in WkDirs : wkDisk[d] = "ok"

\* the walk is over: the files handed to processFile are the regular '.ts'
\* files of the tree, once each, every directory's files and subdirectories
\* in depth-first order, and no symbolic link was followed
WalkedDepthFirst ==
  (wkPc = "exit0" /\ WkAllReadable) =>
     /\ {wkProcessed[k] : k \in 1..Len(wkProcessed)} = WkTsFiles
     /\ Len(wkProcessed) = Cardinality(WkTsFiles)
     /\ wkProcessed = <<WkA, WkX, WkC, WkZ>>
     /\ wkReaddirs = <<WkRoot, WkLib, WkSub>>

\* C29: on a finite directory tree processDirectory terminates and hands to
\* processFile exactly the regular files whose name ends in '.ts', each once,
\* depth-first; an entry that is neither a directory nor a regular file, such
\* as a symbolic link, is neither followed nor processed.
C29_WalkTerminatesOnTsFiles ==
  /\ <>(wkPc \in {"exit0", "exit1"})
  /\ []WalkedDepthFirst

\* the walk of the whole tree is over, past the two symbolic links
C29_Witness ==
  /\ wkPc = "exit0" /\ WkAllReadable
  /\ Len(wkProcessed) = 4
  /\ \E k \in 1..Len(WkReadDir(WkSub)) :
       ~WkReadDir(WkSub)[k].isDirectory /\ ~WkReadDir(WkSub)[k].isFile

-----------------------------------------------------------------------------
(* Claims about parseErrorOutput *)

\* the lines of the output that are diagnostics of the target code
EoTargets == {i \in 1..Len(eoLines) : eoLines[i].kind = "diag" /\ eoLines[i].code = "TS1484"}

\* the snippets with a double-quoted module among the two lines after line i
EoSnippets(i) ==
  {j \in (i + 1)..Min({Len(eoLines), i + 2}) :
     eoLines[j].kind = "snippet" /\ eoLines[j].quote = "\""}

\* the diagnostics an ImportError is due for, in order, each with the module
\* of the first snippet after it
RECURSIVE EoExpected(_)
EoExpected(i) ==
  IF i > Len(eoLines) THEN << >>
  ELSE (IF i \in EoTargets /\ EoSnippets(i) # {}
        THEN <<[file |-> eoLines[i].path, typeIdentifier |-> eoLines[i].name,
                module |-> <<eoLines[Min(EoSnippets(i))].module>>]>>
        ELSE << >>) \o EoExpected(i + 1)

\* C30: parseErrorOutput produces an ImportError for a TS1484 diagnostic line
\* only if one of the next two lines is a source snippet
\* '<number> import ... from "<module>"' with a double-quoted module, which
\* becomes the module of the error; a diagnostic without such a snippet
\* within two lines produces no error.
C30_ErrorNeedsSnippetWithinTwoLines ==
  eoDone =>
    [k \in 1..Len(eoErrors) |->
       [file |-> eoErrors[k].file, typeIdentifier |-> eoErrors[k].typeIdentifier,
        module |-> eoErrors[k].module]] = EoExpected(1)

\* fewer errors than diagnostics of the target code were returned: one
\* diagnostic has its snippet two lines after it, another has none
C30_Witness ==
  /\ eoDone
  /\ Len(eoErrors) = 1
  /\ Cardinality(EoTargets) = 2

=============================================================================
